---- MODULE Spec2Model ----
(***************************************************************************)
(* Model of the Slack <-> LLM <-> tool-provider bridge.                    *)
(*                                                                         *)
(* The state machine follows SlackEventHandlers._process_message and       *)
(* SlackEventHandlers._process_multi_turn_response (slack/handlers.py),    *)
(* ConversationManager (conversation/manager.py) and the part of           *)
(* ToolParser (tools/parser.py) the handler relies on.  Every `await` of   *)
(* the handler is a suspension point: an action runs the code from the     *)
(* completion of one await up to the issue of the next one.                *)
(*                                                                         *)
(* Texts are sequences of string tokens.  A completion is a sequence of    *)
(* tokens in which "[TOOL]" is the marker, "\n" a line break and a token   *)
(* that starts an object ("{...}") is one JSON-shaped block.               *)
(*                                                                         *)
(* The if/elif chain of handlers.py lines 284-296 is read at one nesting   *)
(* level inside the while loop (handoff -> continue, end_response ->       *)
(* break), the regular-tool code of lines 298-360 follows it in the loop   *)
(* body, and lines 362-393 close the loop body.                            *)
(***************************************************************************)
EXTENDS Integers, Sequences, FiniteSets, TLC

\* ------------------------------------------------------------------------
\* Program constants
\* ------------------------------------------------------------------------
max_iterations == 10

DEFAULT_CONVERSATION_HISTORY_LIMIT == 5

MAX_TOOL_CALLS == 10

DEFAULT_MAX_RETRIES == 2

\* ------------------------------------------------------------------------
\* Bounds of the environment
\* ------------------------------------------------------------------------
\* How long a history the direct calls of ConversationManager build.
MaxHistory == 3

\* How many times, while one event is processed, the environment may depart
\* from its usual behaviour: a completion that differs from the provider's
\* habitual one, or an external call (completion, list_tools, execute_tool)
\* that raises.
MaxSurprises == 1

\* Identities of inbound events.
Events == {1, 2}

\* ------------------------------------------------------------------------
\* Texts
\* ------------------------------------------------------------------------
MARKER == "[TOOL]"

NL == "\n"

None == "None"

\* JSON-shaped blocks the Completion Provider may write after a marker line.
JSON_EMPTY == "{}"

JSON_MESSAGE == "{\"message\": \"m1\"}"

JSON_QUERY == "{\"q\": \"x\"}"

JSON_INVALID == "{oops}"

ObjectTokens == {JSON_EMPTY, JSON_MESSAGE, JSON_QUERY, JSON_INVALID}

\* json.loads on one block: a dict is a set of <<key, value>> pairs;
\* the second component tells whether the block decoded.
json_loads(tok) ==
    CASE tok = JSON_EMPTY   -> [ok |-> TRUE,  value |-> {}]
      [] tok = JSON_MESSAGE -> [ok |-> TRUE,  value |-> {<<"message", "m1">>}]
      [] tok = JSON_QUERY   -> [ok |-> TRUE,  value |-> {<<"q", "x">>}]
      [] OTHER              -> [ok |-> FALSE, value |-> {}]

\* dict.get(key, default)
dict_get(d, key, default) ==
    IF \E p \in d : p[1] = key
    THEN (CHOOSE p \in d : p[1] = key)[2]
    ELSE default

Contains(text, tok) == \E i \in 1..Len(text) : text[i] = tok

\* ------------------------------------------------------------------------
\* ToolParser (tools/parser.py)
\* ------------------------------------------------------------------------
\* One match of the pattern \[TOOL\]\s*([^\n]+)\s*\n\s*(\{.*?\}) at
\* position i: marker, a name on the marker line, a line break, a block.
MatchAt(response, i) ==
    /\ i + 3 <= Len(response)
    /\ response[i] = MARKER
    /\ response[i + 1] \notin {MARKER, NL} \cup ObjectTokens
    /\ response[i + 2] = NL
    /\ response[i + 3] \in ObjectTokens

RECURSIVE FindAll(_, _)
\* re.findall: the non-overlapping matches from position i on, left to right.
FindAll(response, i) ==
    IF i > Len(response) THEN << >>
    ELSE IF MatchAt(response, i)
         THEN << <<response[i + 1], response[i + 3]>> >> \o FindAll(response, i + 4)
         ELSE FindAll(response, i + 1)

RECURSIVE DecodeMatches(_)
\* The loop over the matches: a block json.loads rejects is dropped.
DecodeMatches(matches) ==
    IF matches = << >> THEN << >>
    ELSE LET m == Head(matches)
             j == json_loads(m[2])
         IN  (IF j.ok
              THEN << [tool_name |-> m[1], arguments |-> j.value] >>
              ELSE << >>) \o DecodeMatches(Tail(matches))

extract_tool_calls(response) ==
    IF ~Contains(response, MARKER) THEN << >>
    ELSE DecodeMatches(FindAll(response, 1))

RECURSIVE Preamble(_)
\* parts[0] of response.split("[TOOL]")
Preamble(response) ==
    IF response = << >> \/ Head(response) = MARKER THEN << >>
    ELSE <<Head(response)>> \o Preamble(Tail(response))

split_response(response) ==
    IF ~Contains(response, MARKER)
    THEN [non_tool_content |-> response, tool_calls |-> << >>]
    ELSE [non_tool_content |-> Preamble(response),
          tool_calls |-> extract_tool_calls(response)]

\* ------------------------------------------------------------------------
\* ConversationManager (conversation/manager.py)
\* ------------------------------------------------------------------------
\* self.conversations is a function from the keys present to histories.
Message(role, content) == [role |-> role, content |-> content]

\* Mutation: the conversation is created anew at every call.
get_or_create_conversation_Fresh(convs, conversation_id) ==
    [k \in DOMAIN convs \cup {conversation_id} |->
        IF k = conversation_id THEN << >> ELSE convs[k]]

\* if conversation_id not in self.conversations: ... = {"messages": []} (24-27)
get_or_create_conversation(convs, conversation_id) ==
    IF conversation_id \in DOMAIN convs THEN convs
    ELSE [k \in DOMAIN convs \cup {conversation_id} |->
            IF k = conversation_id THEN << >> ELSE convs[k]]

\* Mutation: the message is put in front of the history.
add_message_Prepends(convs, conversation_id, role, content) ==
    LET c == get_or_create_conversation(convs, conversation_id)
    IN  [c EXCEPT ![conversation_id] = <<Message(role, content)>> \o @]

\* add_message (38-42), without metadata.
add_message(convs, conversation_id, role, content) ==
    LET c == get_or_create_conversation(convs, conversation_id)
    IN  [c EXCEPT ![conversation_id] = Append(@, Message(role, content))]

\* list[-limit:] ; -0 is 0, so limit = 0 slices from the start.
LastN(s, limit) ==
    IF limit = 0 \/ limit >= Len(s) THEN s
    ELSE SubSeq(s, Len(s) - limit + 1, Len(s))

\* Mutation: the messages are read from another conversation when there
\* is one.
get_messages_OtherKey(convs, conversation_id, limit) ==
    LET c == get_or_create_conversation(convs, conversation_id)
        other == CHOOSE k \in DOMAIN c : k # conversation_id \/ DOMAIN c = {conversation_id}
    IN  [store |-> c, result |-> LastN(c[other], limit)]

\* get_messages: the store after the call and the list returned.
get_messages(convs, conversation_id, limit) ==
    LET c == get_or_create_conversation(convs, conversation_id)
    IN  [store |-> c,
         result |-> IF c[conversation_id] # << >>
                    THEN LastN(c[conversation_id], limit) ELSE << >>]

\* Mutation: the key is reset whether or not it is present.
clear_conversation_Creates(convs, conversation_id) ==
    [k \in DOMAIN convs \cup {conversation_id} |->
        IF k = conversation_id THEN << >> ELSE convs[k]]

\* clear_conversation (65-66): only a key that is present is reset.
clear_conversation(convs, conversation_id) ==
    IF conversation_id \in DOMAIN convs
    THEN [convs EXCEPT ![conversation_id] = << >>]
    ELSE convs

\* ------------------------------------------------------------------------
\* The environment: events, completions, tool providers
\* ------------------------------------------------------------------------
BOT == "UBOT"

MENTION(id) == "<@" \o id \o ">"

\* Inbound events {channel, user, text, ts, thread_ts?}; thread_ts = None
\* stands for an event that carries no thread_ts.  Event 1 is a root
\* message written by a user or by the bot itself; event 2 is a later
\* message, in the thread of event 1 or outside it, in the same channel or
\* in another one.
InboundEvents(e) ==
    IF e = 1
    THEN [channel : {"C1"}, user : {"U1", BOT},
          text : {<<MENTION(BOT), "hello">>}, ts : {"t1"}, thread_ts : {None}]
    ELSE [channel : {"C1", "C2"}, user : {"U2"},
          text : {<<"more">>}, ts : {"t2"}, thread_ts : {None, "t1"}]

R_answer == <<"answer">>

R_malformed == <<MARKER, "search", NL, JSON_INVALID>>

R_handoff == <<MARKER, "handoff", NL, JSON_MESSAGE>>

R_handoff_bare == <<MARKER, "handoff", NL, JSON_EMPTY>>

R_end == <<MARKER, "end_response", NL, JSON_EMPTY>>

R_search == <<MARKER, "search", NL, JSON_QUERY>>

R_lookup == <<MARKER, "lookup", NL, JSON_EMPTY>>

R_ghost == <<MARKER, "ghost", NL, JSON_EMPTY>>

R_two_handoff == R_handoff \o <<NL>> \o R_search

R_two_end == R_end \o <<NL>> \o R_handoff

R_two_search == R_search \o <<NL>> \o R_lookup

\* Completions the provider may return.
Responses ==
    {R_answer, R_malformed, R_handoff, R_handoff_bare, R_end, R_search,
     R_lookup, R_ghost, R_two_handoff, R_two_end, R_two_search}

\* What the provider returns when it does not surprise.
Habits == {R_answer, R_handoff, R_search, R_end}

\* self.tool_executor.servers, in registration order: each provider's
\* catalog as list_tools reports it when it does not raise.
Catalog == << <<"lookup", "handoff">>, <<"search", "lookup">> >>

Servers == 1..Len(Catalog)

\* The greeting the provider writes.
Greetings == {<<"greeting">>}

\* Text of an exception raised by an external call, and a tool's result.
BOOM == "boom"

RESULT == "ok"

\* ------------------------------------------------------------------------
\* State
\* ------------------------------------------------------------------------
VARIABLES
    bot_id,         \* SlackEventHandlers.bot_id (None when it is not known)
    conversations,  \* ConversationManager.conversations
    chat,           \* what say() has posted to the Chat Gateway, in order
    task,           \* per event: the coroutine running _process_message
    env,            \* per event: the environment's habit and surprises so far
    executor,       \* the coroutine running ToolExecutor.process_tool_calls
    manager_call,   \* the last direct call of ConversationManager and its return
    startup,        \* SlackMCPBot.start: its position, the bot's and the handlers' tools
    llm,            \* one call of LLMClient.get_response
    server_call,    \* one call of Server.execute_tool
    parser          \* one text given to ToolParser and what it returned

vars ==
    <<bot_id, conversations, chat, task, env, executor, manager_call,
      startup, llm, server_call, parser>>

\* The state of the units that are called on their own.
unit_vars == <<llm, server_call, parser>>

\* The state of the event handlers.
handler_vars == <<bot_id, conversations, chat, task, env>>

\* Texts the handler writes.
SYSTEM_PROMPT == <<"You are a helpful Slack bot with access to powerful tools.">>

GREETING_PROMPT == <<"EXECUTE STEP 1 ONLY">>

STEP5_PROMPT == <<"Now proceed to STEP 5: End the conversation with the end_response tool.">>

REMINDER == <<"REMINDER: You should only include ONE tool call per response.">>

PARSE_ERROR == <<"Your tool call could not be parsed.">>

STEP2_PROMPT == <<"Continue with STEP 2">>

STEP3_PROMPT == <<"Continue with STEP 3">>

MAX_STEPS == <<"I've reached the maximum number of steps for this request.">>

DEFAULT_HANDOFF == "Working on your request..."

NoCall == [tool_name |-> None, arguments |-> {}]

NoEvent == [channel |-> None, user |-> None, text |-> << >>, ts |-> None,
            thread_ts |-> None]

\* The locals of _process_message and _process_multi_turn_response, the
\* position of the coroutine (pc), and a record of what it has done
\* (completions, responses, contacts) that the code does not keep.
Idle ==
    [pc |-> "idle", event |-> NoEvent,
     channel |-> None, thread_ts |-> None, conversation_id |-> None,
     text |-> << >>, messages |-> << >>, request |-> << >>, saying |-> << >>,
     iterations |-> 0, response_complete |-> FALSE,
     response |-> << >>, tool_call |-> NoCall,
     srv |-> 0, all_available_tools |-> << >>, tool_found |-> FALSE,
     error |-> None,
     completions |-> 0, responses |-> << >>, contacts |-> << >>,
     stored |-> << >>]

\* pc values at which a say() is in flight.
SayStates ==
    {"greeting_say", "answer_say", "handoff_say", "using_say", "error_say",
     "notfound_say", "maxsteps_say", "apology_say"}

\* ------------------------------------------------------------------------
\* _process_message (handlers.py 121-228)
\* ------------------------------------------------------------------------
\* text.replace(f"<@{self.bot_id}>", "").strip() when the bot id is known
StripMention(text, id) ==
    IF id # None THEN SelectSeq(text, LAMBDA tok : tok # MENTION(id)) ELSE text

\* Mutation: the thread is always the event's own ts.
ThreadOf_OwnTs(ev) == ev.ts

\* event.get("thread_ts", event.get("ts"))
ThreadOf(ev) == IF ev.thread_ts # None THEN ev.thread_ts ELSE ev.ts

\* f"{channel}-{thread_ts}"
ConversationId(channel, thread_ts) == channel \o "-" \o thread_ts

APOLOGY == "I'm sorry, I encountered an error:"

\* Mutation: the exception is swallowed and the completion asked for again.
Apologise_Retries(t, e) == [t EXCEPT !.completions = @ + 1]

\* except Exception as e (225-228): the apology is sent.
Apologise(t, e) ==
    [t EXCEPT !.pc = "apology_say", !.error = e, !.request = << >>,
              !.saying = <<APOLOGY, e>>]

\* ------------------------------------------------------------------------
\* _process_multi_turn_response (handlers.py 230-393)
\* ------------------------------------------------------------------------
\* Mutation: the test of the iteration counter is off by one.
LoopGuard_OffByOne(t) == ~t.response_complete /\ t.iterations <= max_iterations

\* Mutation: the loop is bounded by the end_response flag alone.
LoopGuard_NoCap(t) == ~t.response_complete

\* while not response_complete and iterations < max_iterations (246)
LoopGuard(t) == ~t.response_complete /\ t.iterations < max_iterations

\* The loop head, up to the await of get_response (246-250); when the loop
\* is left the method returns and _process_message ends.
WhileLoop(t) ==
    IF LoopGuard(t)
    THEN [t EXCEPT !.iterations = @ + 1, !.request = t.messages,
                   !.completions = @ + 1, !.pc = "loop_llm"]
    ELSE [t EXCEPT !.pc = "done"]

\* The end of the loop body (362-393), reached after a regular tool.
AfterTool(t) ==
    IF ~t.response_complete /\ t.iterations < max_iterations
    THEN IF t.tool_call.tool_name = "handoff"
         THEN WhileLoop([t EXCEPT !.messages = Append(@, Message("system", STEP2_PROMPT))])
         ELSE IF t.tool_call.tool_name = "end_response"
         THEN WhileLoop([t EXCEPT !.response_complete = TRUE])
         ELSE WhileLoop([t EXCEPT !.messages = Append(@, Message("system", STEP3_PROMPT))])
    ELSE IF t.iterations >= max_iterations
         THEN [t EXCEPT !.pc = "maxsteps_say", !.saying = MAX_STEPS]
         ELSE WhileLoop(t)

\* Mutation: a tool no server lists is passed over in silence.
AfterServers_Silent(t) == AfterTool(t)

\* if not tool_found and tool_name not in [...] (353-360), then 362-393
AfterServers(t) ==
    IF ~t.tool_found /\ t.tool_call.tool_name \notin {"handoff", "end_response"}
    THEN [t EXCEPT !.pc = "notfound_say",
                   !.saying = <<"_Tool not found:", t.tool_call.tool_name, "_">>]
    ELSE AfterTool(t)

\* for server in self.tool_executor.servers (314): the next server of the
\* second loop, or the code after it.
NextFind(t) ==
    IF t.srv < Len(Catalog)
    THEN [t EXCEPT !.srv = @ + 1,
                   !.contacts = Append(@, [op |-> "list_tools", server |-> t.srv + 1,
                                           name |-> None, arguments |-> {},
                                           iteration |-> t.iterations])]
    ELSE AfterServers([t EXCEPT !.srv = 0])

\* for server in self.tool_executor.servers (303): the next server of the
\* first loop, or the start of the second loop.
NextListing(t) ==
    IF t.srv < Len(Catalog)
    THEN [t EXCEPT !.srv = @ + 1,
                   !.contacts = Append(@, [op |-> "list_tools", server |-> t.srv + 1,
                                           name |-> None, arguments |-> {},
                                           iteration |-> t.iterations])]
    ELSE NextFind([t EXCEPT !.srv = 0, !.pc = "find"])

\* Lines 298-305: a regular tool starts the first loop over the servers.
RegularTool(t) ==
    NextListing([t EXCEPT !.tool_found = FALSE, !.all_available_tools = << >>,
                          !.srv = 0, !.pc = "list_all"])

\* arguments.get('message', 'Working on your request...') in italics (286)
HandoffMessage(arguments) == <<"_", dict_get(arguments, "message", DEFAULT_HANDOFF), "_">>

\* Mutation: end_response sets the flag but the loop body goes on.
ProcessToolCall_NoBreak(t) ==
    IF t.tool_call.tool_name = "handoff"
    THEN [t EXCEPT !.pc = "handoff_say",
                   !.saying = HandoffMessage(t.tool_call.arguments)]
    ELSE IF t.tool_call.tool_name = "end_response"
    THEN RegularTool([t EXCEPT !.response_complete = TRUE])
    ELSE RegularTool(t)

\* Mutation: handoff is looked up among the providers like any other tool.
ProcessToolCall_HandoffDispatched(t) ==
    IF t.tool_call.tool_name = "end_response"
    THEN [t EXCEPT !.response_complete = TRUE, !.pc = "done"]
    ELSE RegularTool(t)

\* Lines 279-296 for the selected tool call.
ProcessToolCall(t) ==
    IF t.tool_call.tool_name = "handoff"
    THEN [t EXCEPT !.pc = "handoff_say",
                   !.saying = HandoffMessage(t.tool_call.arguments)]
    ELSE IF t.tool_call.tool_name = "end_response"
    THEN [t EXCEPT !.response_complete = TRUE, !.pc = "done"]
    ELSE RegularTool(t)

\* Mutation: of several calls the last one is processed.
SelectToolCall_Last(t, tool_calls) ==
    IF Len(tool_calls) > 1
    THEN ProcessToolCall([t EXCEPT !.tool_call = tool_calls[Len(tool_calls)],
                                   !.messages = Append(@, Message("system", REMINDER))])
    ELSE IF Len(tool_calls) = 0
    THEN WhileLoop([t EXCEPT !.messages = Append(@, Message("system", PARSE_ERROR))])
    ELSE ProcessToolCall([t EXCEPT !.tool_call = tool_calls[1]])

\* Mutation: the response that did not parse is kept in the context.
SelectToolCall_KeepsMalformed(t, tool_calls) ==
    IF Len(tool_calls) > 1
    THEN ProcessToolCall([t EXCEPT !.tool_call = tool_calls[1],
                                   !.messages = Append(@, Message("system", REMINDER))])
    ELSE IF Len(tool_calls) = 0
    THEN WhileLoop([t EXCEPT !.messages =
            Append(Append(@, Message("assistant", t.response)),
                   Message("system", PARSE_ERROR))])
    ELSE ProcessToolCall([t EXCEPT !.tool_call = tool_calls[1]])

\* Lines 264-277: which call is selected, and the corrective messages.
SelectToolCall(t, tool_calls) ==
    IF Len(tool_calls) > 1
    THEN ProcessToolCall([t EXCEPT !.tool_call = tool_calls[1],
                                   !.messages = Append(@, Message("system", REMINDER))])
    ELSE IF Len(tool_calls) = 0
    THEN WhileLoop([t EXCEPT !.messages = Append(@, Message("system", PARSE_ERROR))])
    ELSE ProcessToolCall([t EXCEPT !.tool_call = tool_calls[1]])

\* Mutation: every completion is relayed as if it were the final answer.
OnResponse_RelaysAll(t, response) ==
    [t EXCEPT !.response = response, !.request = << >>,
              !.responses = Append(@, response),
              !.pc = "answer_say", !.saying = response]

\* Lines 250-296: the completion `response` has arrived.
OnResponse(t, response) ==
    LET t1 == [t EXCEPT !.response = response, !.request = << >>,
                        !.responses = Append(@, response)]
    IN  IF ~Contains(response, MARKER)
        THEN [t1 EXCEPT !.pc = "answer_say", !.saying = response]
        ELSE SelectToolCall(t1, split_response(response).tool_calls)

\* ------------------------------------------------------------------------
\* Actions
\* ------------------------------------------------------------------------
\* Mutation: say() is called with the channel and thread of the event
\* received first.
Deliver_FirstEvent(e, t) ==
    /\ task' = [task EXCEPT ![e] = t]
    /\ chat' = IF t.pc \in SayStates
               THEN Append(chat, [text |-> t.saying,
                                  channel |-> IF e = 2 /\ Len(chat) > 0
                                              THEN chat[1].channel ELSE t.channel,
                                  thread_ts |-> IF e = 2 /\ Len(chat) > 0
                                                THEN chat[1].thread_ts ELSE t.thread_ts,
                                  event |-> e, iteration |-> t.iterations])
               ELSE chat
    /\ UNCHANGED <<executor, manager_call, startup, unit_vars>>

\* The coroutine of event e moves to frame t; a say() it has just issued
\* is posted with the channel and thread the call names.
Deliver(e, t) ==
    /\ task' = [task EXCEPT ![e] = t]
    /\ chat' = IF t.pc \in SayStates
               THEN Append(chat, [text |-> t.saying, channel |-> t.channel,
                                  thread_ts |-> t.thread_ts, event |-> e,
                                  iteration |-> t.iterations])
               ELSE chat
    /\ UNCHANGED <<executor, manager_call, startup, unit_vars>>

\* Frame t after its add_message: stored logs the place in the history of
\* the conversation at which the message of this coroutine went.
Stored(t) ==
    [t EXCEPT !.stored = Append(@, Len(conversations'[t.conversation_id]))]

\* A say() of event e has returned.
Said(e, at) == task[e].pc = at

\* Server s of the registry has a session: its initialize() got through
\* (main.py 127).  Without one list_tools raises RuntimeError (142-143).
HasSession(s) == startup.sessions[s]

Usual(e) == UNCHANGED env

Surprise(e) ==
    /\ env[e].surprises < MaxSurprises
    /\ env' = [env EXCEPT ![e].surprises = @ + 1]

\* Mutation: the history is read before the user message is appended.
Receive_ReadsFirst(e, ev) ==
    /\ task[e].pc = "idle"
    /\ \E h \in Habits : env' = [env EXCEPT ![e] = [habit |-> h, surprises |-> 0]]
    /\ IF ev.user = bot_id
       THEN /\ Deliver(e, [task[e] EXCEPT !.pc = "done", !.event = ev])
            /\ UNCHANGED conversations
       ELSE LET text == StripMention(ev.text, bot_id)
                thread_ts == ThreadOf(ev)
                conversation_id == ConversationId(ev.channel, thread_ts)
                got == get_messages(conversations, conversation_id,
                                    DEFAULT_CONVERSATION_HISTORY_LIMIT)
                messages == <<Message("system", SYSTEM_PROMPT)>> \o got.result
            IN  /\ conversations' = add_message(got.store, conversation_id, "user", text)
                /\ Deliver(e, Stored([task[e] EXCEPT
                        !.pc = "greeting_llm", !.event = ev,
                        !.channel = ev.channel, !.thread_ts = thread_ts,
                        !.conversation_id = conversation_id, !.text = text,
                        !.messages = messages,
                        !.request = Append(messages, Message("system", GREETING_PROMPT))]))
    /\ UNCHANGED bot_id

\* handle_mention -> _process_message, up to the await of the greeting
\* completion (128-218).
Receive(e, ev) ==
    /\ task[e].pc = "idle"
    /\ \E h \in Habits : env' = [env EXCEPT ![e] = [habit |-> h, surprises |-> 0]]
    /\ IF ev.user = bot_id
       THEN /\ Deliver(e, [task[e] EXCEPT !.pc = "done", !.event = ev])
            /\ UNCHANGED conversations
       ELSE LET text == StripMention(ev.text, bot_id)
                thread_ts == ThreadOf(ev)
                conversation_id == ConversationId(ev.channel, thread_ts)
                stored == add_message(conversations, conversation_id, "user", text)
                got == get_messages(stored, conversation_id,
                                    DEFAULT_CONVERSATION_HISTORY_LIMIT)
                messages == <<Message("system", SYSTEM_PROMPT)>> \o got.result
            IN  /\ conversations' = got.store
                /\ Deliver(e, Stored([task[e] EXCEPT
                        !.pc = "greeting_llm", !.event = ev,
                        !.channel = ev.channel, !.thread_ts = thread_ts,
                        !.conversation_id = conversation_id, !.text = text,
                        !.messages = messages,
                        !.request = Append(messages, Message("system", GREETING_PROMPT))]))
    /\ UNCHANGED bot_id

\* The greeting completion returns; it is relayed (219).
GreetingReturns(e, r) ==
    /\ task[e].pc = "greeting_llm"
    /\ Usual(e)
    /\ Deliver(e, [task[e] EXCEPT !.pc = "greeting_say", !.saying = r, !.request = << >>])
    /\ UNCHANGED <<bot_id, conversations>>

\* get_response raises, in the greeting or in the loop: nothing in the loop
\* catches it, the handler of 225-228 does.
CompletionRaises(e) ==
    /\ task[e].pc \in {"greeting_llm", "loop_llm"}
    /\ Surprise(e)
    /\ Deliver(e, Apologise(task[e], BOOM))
    /\ UNCHANGED <<bot_id, conversations>>

\* The greeting is stored and the loop is entered (220-250).
GreetingSaid(e) ==
    /\ Said(e, "greeting_say")
    /\ conversations' = add_message(conversations, task[e].conversation_id,
                                    "assistant", task[e].saying)
    /\ Deliver(e, Stored(WhileLoop([task[e] EXCEPT !.saying = << >>,
                                !.response_complete = FALSE, !.iterations = 0])))
    /\ UNCHANGED <<bot_id, env>>

\* A completion of the loop returns (250-296).
CompletionReturns(e, r) ==
    /\ task[e].pc = "loop_llm"
    /\ IF r = env[e].habit THEN Usual(e) ELSE Surprise(e)
    /\ Deliver(e, OnResponse(task[e], r))
    /\ UNCHANGED <<bot_id, conversations>>

\* Mutation: the answer ends the loop.
AnswerSaid_Terminates(e) ==
    /\ Said(e, "answer_say")
    /\ conversations' = add_message(conversations, task[e].conversation_id,
                                    "assistant", task[e].response)
    /\ Deliver(e, Stored([task[e] EXCEPT !.saying = << >>, !.response_complete = TRUE,
                                         !.pc = "done"]))
    /\ UNCHANGED <<bot_id, env>>

\* After the answer was relayed (258-262).
AnswerSaid(e) ==
    /\ Said(e, "answer_say")
    /\ conversations' = add_message(conversations, task[e].conversation_id,
                                    "assistant", task[e].response)
    /\ Deliver(e, Stored(WhileLoop([task[e] EXCEPT !.saying = << >>,
                                !.messages = Append(@, Message("system", STEP5_PROMPT))])))
    /\ UNCHANGED <<bot_id, env>>

\* After the handoff message was relayed (288-291).
HandoffSaid(e) ==
    /\ Said(e, "handoff_say")
    /\ conversations' = add_message(conversations, task[e].conversation_id,
                                    "assistant", task[e].saying)
    /\ Deliver(e, Stored(WhileLoop([task[e] EXCEPT !.saying = << >>,
            !.messages = Append(@, Message("assistant",
                <<"I sent an intermediate message:",
                  dict_get(task[e].tool_call.arguments, "message", None)>>))])))
    /\ UNCHANGED <<bot_id, env>>

\* First loop over the servers: list_tools returns (305-307).
ListToolsReturns(e) ==
    /\ task[e].pc = "list_all"
    /\ HasSession(task[e].srv)
    /\ Usual(e)
    /\ Deliver(e, NextListing([task[e] EXCEPT
            !.all_available_tools = @ \o Catalog[task[e].srv]]))
    /\ UNCHANGED <<bot_id, conversations>>

\* First loop over the servers: list_tools raises (308-309).
ListToolsRaises(e) ==
    /\ task[e].pc = "list_all"
    /\ IF HasSession(task[e].srv) THEN Surprise(e) ELSE Usual(e)
    /\ Deliver(e, NextListing(task[e]))
    /\ UNCHANGED <<bot_id, conversations>>

\* Second loop: list_tools returns; the tool is announced when the server
\* lists it (316-322).
FindReturns(e) ==
    /\ task[e].pc = "find"
    /\ HasSession(task[e].srv)
    /\ Usual(e)
    /\ Deliver(e, IF Contains(Catalog[task[e].srv], task[e].tool_call.tool_name)
                  THEN [task[e] EXCEPT !.tool_found = TRUE, !.pc = "using_say",
                            !.saying = <<"_Using tool:", task[e].tool_call.tool_name, "_">>]
                  ELSE NextFind(task[e]))
    /\ UNCHANGED <<bot_id, conversations>>

\* Second loop: list_tools raises (349-351).
FindRaises(e) ==
    /\ task[e].pc = "find"
    /\ IF HasSession(task[e].srv) THEN Surprise(e) ELSE Usual(e)
    /\ Deliver(e, NextFind(task[e]))
    /\ UNCHANGED <<bot_id, conversations>>

\* After the notice, execute_tool is called (326).
UsingSaid(e) ==
    /\ Said(e, "using_say")
    /\ Deliver(e, [task[e] EXCEPT !.saying = << >>, !.pc = "execute",
            !.contacts = Append(@, [op |-> "execute_tool", server |-> task[e].srv,
                                    name |-> task[e].tool_call.tool_name,
                                    arguments |-> task[e].tool_call.arguments,
                                    iteration |-> task[e].iterations])])
    /\ UNCHANGED <<bot_id, conversations, env>>

\* Mutation: the tool result is written to the conversation store as well.
ExecuteReturns_Persists(e) ==
    /\ task[e].pc = "execute"
    /\ Usual(e)
    /\ conversations' = add_message(conversations, task[e].conversation_id, "system",
            <<"Tool", task[e].tool_call.tool_name,
              "executed successfully. Result:", RESULT>>)
    /\ Deliver(e, AfterServers([task[e] EXCEPT !.srv = 0,
            !.messages = Append(@, Message("system",
                <<"Tool", task[e].tool_call.tool_name,
                  "executed successfully. Result:", RESULT>>))]))
    /\ UNCHANGED bot_id

\* execute_tool returns (326-339, 348).
ExecuteReturns(e) ==
    /\ task[e].pc = "execute"
    /\ Usual(e)
    /\ Deliver(e, AfterServers([task[e] EXCEPT !.srv = 0,
            !.messages = Append(@, Message("system",
                <<"Tool", task[e].tool_call.tool_name,
                  "executed successfully. Result:", RESULT>>))]))
    /\ UNCHANGED <<bot_id, conversations>>

\* execute_tool raises (340-343).
ExecuteRaises(e) ==
    /\ task[e].pc = "execute"
    /\ Surprise(e)
    /\ Deliver(e, [task[e] EXCEPT !.pc = "error_say",
            !.saying = <<"_Error executing tool", task[e].tool_call.tool_name, BOOM, "_">>])
    /\ UNCHANGED <<bot_id, conversations>>

\* After the error notice (344-348).
ErrorSaid(e) ==
    /\ Said(e, "error_say")
    /\ Deliver(e, AfterServers([task[e] EXCEPT !.saying = << >>, !.srv = 0,
            !.messages = Append(@, Message("system",
                <<"Tool", task[e].tool_call.tool_name, "failed with error:", BOOM>>))]))
    /\ UNCHANGED <<bot_id, conversations, env>>

\* After the not-found notice (357-360), then the end of the loop body.
NotFoundSaid(e) ==
    /\ Said(e, "notfound_say")
    /\ Deliver(e, AfterTool([task[e] EXCEPT !.saying = << >>,
            !.messages = Append(@, Message("system",
                <<"Tool", task[e].tool_call.tool_name, "not found. Available tools:">>
                \o task[e].all_available_tools))]))
    /\ UNCHANGED <<bot_id, conversations, env>>

\* After the maximum-steps notice (393).
MaxStepsSaid(e) ==
    /\ Said(e, "maxsteps_say")
    /\ Deliver(e, WhileLoop([task[e] EXCEPT !.saying = << >>, !.response_complete = TRUE]))
    /\ UNCHANGED <<bot_id, conversations, env>>

\* After the apology _process_message ends (228).
ApologySaid(e) ==
    /\ Said(e, "apology_say")
    /\ Deliver(e, [task[e] EXCEPT !.saying = << >>, !.pc = "done"])
    /\ UNCHANGED <<bot_id, conversations, env>>

\* ------------------------------------------------------------------------
\* ToolExecutor (tools/executor.py)
\* ------------------------------------------------------------------------
RECURSIVE Batch(_)
\* Several tool calls in one text, one after the other.
Batch(calls) ==
    IF calls = << >> THEN << >>
    ELSE IF Len(calls) = 1 THEN Head(calls)
    ELSE Head(calls) \o <<NL>> \o Batch(Tail(calls))

R_preamble_malformed == <<"thinking">> \o R_malformed

R_preamble_two == <<"thinking">> \o R_ghost \o <<NL>> \o R_lookup

\* One tool call more than MAX_TOOL_CALLS.
R_eleven ==
    Batch(<<R_search, R_lookup, R_ghost, R_lookup, R_search, R_lookup,
            R_ghost, R_search, R_lookup, R_ghost, R_search>>)

\* Texts process_tool_calls is given.
ExecutorInputs ==
    {R_answer, R_malformed, R_preamble_malformed, R_search, R_lookup, R_ghost,
     R_two_search, R_preamble_two, R_eleven}

INTERPRET_PROMPT == <<"You are a helpful assistant. You've just used multiple tools and received results.">>

INTERPRETATION == <<"interpretation">>

\* The locals of process_tool_calls and _execute_tools; contacts is the
\* log of the calls made to the Tool Providers and raised the log of the
\* external calls that raised.
ExecutorIdle ==
    [pc |-> "idle", response |-> << >>, non_tool_content |-> << >>,
     tool_calls |-> << >>, i |-> 0, srv |-> 0, tool_executed |-> FALSE,
     tool_results |-> << >>, request |-> << >>, returned |-> << >>,
     contacts |-> << >>, raised |-> << >>, surprises |-> 0]

RECURSIVE FormatFrom(_, _)
\* The loop of _format_tool_results from result k on (168-180).
FormatFrom(tool_results, k) ==
    IF k > Len(tool_results) THEN << >>
    ELSE LET result == tool_results[k]
         IN  (IF result.success
              THEN <<NL, NL, "Tool", ToString(k), result.tool, NL,
                     "Success: True", NL, "Result:", NL, result.result>>
              ELSE <<NL, NL, "Tool", ToString(k), result.tool, NL,
                     "Success: False", NL, "Error:">> \o result.error)
             \o FormatFrom(tool_results, k + 1)

format_tool_results(tool_results) == FormatFrom(tool_results, 1)

\* The messages _get_interpretation sends (132-152).
InterpretationRequest(tool_results) ==
    << Message("system", INTERPRET_PROMPT),
       Message("user",
           <<"I executed", ToString(Len(tool_results)),
             "tools based on the request and got these results:">>
           \o format_tool_results(tool_results)
           \o <<NL, NL, "Please provide a helpful response">>) >>

\* Mutation: the batch is not limited.
TruncateCalls_Unlimited(tool_calls) == tool_calls

\* if len(tool_calls) > MAX_TOOL_CALLS: tool_calls = tool_calls[:MAX_TOOL_CALLS]
TruncateCalls(tool_calls) ==
    IF Len(tool_calls) > MAX_TOOL_CALLS
    THEN SubSeq(tool_calls, 1, MAX_TOOL_CALLS)
    ELSE tool_calls

\* Mutation: the results are interpreted also when there are none.
EndExecuteTools_AlwaysInterprets(x) ==
    [x EXCEPT !.pc = "interpret", !.request = InterpretationRequest(x.tool_results)]

\* Lines 54-58: after _execute_tools has returned.
EndExecuteTools(x) ==
    IF x.tool_results = << >>
    THEN [x EXCEPT !.pc = "done",
                   !.returned = IF x.non_tool_content # << >>
                                THEN x.non_tool_content ELSE x.response]
    ELSE [x EXCEPT !.pc = "interpret",
                   !.request = InterpretationRequest(x.tool_results)]

\* Lines 79-87 for tool call i, up to the first list_tools.
StartCall(x, i) ==
    [x EXCEPT !.i = i, !.srv = 1, !.tool_executed = FALSE, !.pc = "list",
              !.contacts = Append(@, [op |-> "list_tools", server |-> 1,
                                      name |-> None, arguments |-> {},
                                      call |-> i])]

\* for i, tool_call in enumerate(tool_calls) (79), then return (120).
NextCall(x) ==
    IF x.i < Len(x.tool_calls) THEN StartCall(x, x.i + 1) ELSE EndExecuteTools(x)

\* The result of a tool no server executed (113-118).
NotAvailable(tool_name) ==
    [tool |-> tool_name, success |-> FALSE,
     error |-> <<"Tool '", tool_name, "' not available">>, result |-> None]

\* Mutation: a tool no server executed leaves no result.
AfterProviders_Silent(x) == NextCall(x)

\* if not tool_executed (112-118), then the next tool call.
AfterProviders(x) ==
    NextCall(IF ~x.tool_executed
             THEN [x EXCEPT !.tool_results =
                        Append(@, NotAvailable(x.tool_calls[x.i].tool_name))]
             ELSE x)

\* for server in self.servers (85): the next server, or the code after
\* the loop.
NextProvider(x) ==
    IF x.srv < Len(Catalog)
    THEN [x EXCEPT !.srv = @ + 1,
                   !.contacts = Append(@, [op |-> "list_tools", server |-> x.srv + 1,
                                           name |-> None, arguments |-> {},
                                           call |-> x.i])]
    ELSE AfterProviders(x)

\* Mutation: a listing that raises ends the search for the tool.
OnListError_Breaks(x) == AfterProviders(x)

\* list_tools has raised: except ... continue (108-110).
OnListError(x) == NextProvider(x)

\* list_tools has returned the catalog of server x.srv (87-92).
OnCatalog(x) ==
    IF Contains(Catalog[x.srv], x.tool_calls[x.i].tool_name)
    THEN [x EXCEPT !.tool_executed = TRUE, !.pc = "execute",
                   !.contacts = Append(@, [op |-> "execute_tool", server |-> x.srv,
                                           name |-> x.tool_calls[x.i].tool_name,
                                           arguments |-> x.tool_calls[x.i].arguments,
                                           call |-> x.i])]
    ELSE NextProvider(x)

\* execute_tool has returned (93-98), break (107).
OnResult(x) ==
    AfterProviders([x EXCEPT !.tool_results =
        Append(@, [tool |-> x.tool_calls[x.i].tool_name, success |-> TRUE,
                   arguments |-> x.tool_calls[x.i].arguments, result |-> RESULT])])

\* execute_tool has raised (99-106), break (107).
OnExecuteError(x) ==
    AfterProviders([x EXCEPT !.tool_results =
        Append(@, [tool |-> x.tool_calls[x.i].tool_name, success |-> FALSE,
                   arguments |-> x.tool_calls[x.i].arguments,
                   error |-> <<BOOM>>, result |-> None])])

\* Mutation: a response without a marker is handed on like one whose tool
\* calls gave results.
process_tool_calls_Interprets(x, response) ==
    IF ~Contains(response, MARKER)
    THEN [x EXCEPT !.pc = "interpret", !.response = response,
                   !.request = InterpretationRequest(<< >>)]
    ELSE LET parts == split_response(response)
             y == [x EXCEPT !.response = response,
                            !.non_tool_content = parts.non_tool_content,
                            !.tool_calls = TruncateCalls(parts.tool_calls)]
         IN  IF y.tool_calls = << >> THEN EndExecuteTools(y) ELSE StartCall(y, 1)

\* process_tool_calls up to its first await (37-51).
process_tool_calls(x, response) ==
    IF ~Contains(response, MARKER)
    THEN [x EXCEPT !.pc = "done", !.response = response, !.returned = response]
    ELSE LET parts == split_response(response)
             y == [x EXCEPT !.response = response,
                            !.non_tool_content = parts.non_tool_content,
                            !.tool_calls = TruncateCalls(parts.tool_calls)]
         IN  IF y.tool_calls = << >> THEN EndExecuteTools(y) ELSE StartCall(y, 1)

\* The text returned when an exception reaches process_tool_calls (61-66).
ToolsErrorText(response) ==
    <<"I tried to use one or more tools, but encountered an error:", BOOM,
      NL, NL, "Here's my response without the tools:", NL, NL>>
    \o Preamble(response)

\* An external call of the executor departs from returning normally.
Startled(x) ==
    [x EXCEPT !.surprises = @ + 1,
              !.raised = Append(@, [op |-> x.pc, call |-> x.i])]

ProcessToolCalls(response) ==
    /\ executor.pc = "idle"
    /\ executor' = process_tool_calls(executor, response)
    /\ UNCHANGED <<handler_vars, manager_call, startup, unit_vars>>

DispatchListReturns ==
    /\ executor.pc = "list"
    /\ HasSession(executor.srv)
    /\ executor' = OnCatalog(executor)
    /\ UNCHANGED <<handler_vars, manager_call, startup, unit_vars>>

\* list_tools raises: logged, the next server is tried (108-110).
DispatchListRaises ==
    /\ executor.pc = "list"
    /\ HasSession(executor.srv) => executor.surprises < MaxSurprises
    /\ executor' = OnListError(IF HasSession(executor.srv)
                               THEN Startled(executor) ELSE executor)
    /\ UNCHANGED <<handler_vars, manager_call, startup, unit_vars>>

DispatchExecuteReturns ==
    /\ executor.pc = "execute"
    /\ executor' = OnResult(executor)
    /\ UNCHANGED <<handler_vars, manager_call, startup, unit_vars>>

DispatchExecuteRaises ==
    /\ executor.pc = "execute"
    /\ executor.surprises < MaxSurprises
    /\ executor' = OnExecuteError(Startled(executor))
    /\ UNCHANGED <<handler_vars, manager_call, startup, unit_vars>>

\* get_response returns the interpretation (154-155, 58-59).
InterpretationReturns ==
    /\ executor.pc = "interpret"
    /\ executor' = [executor EXCEPT !.pc = "done", !.returned = INTERPRETATION]
    /\ UNCHANGED <<handler_vars, manager_call, startup, unit_vars>>

\* get_response raises (61-66).
InterpretationRaises ==
    /\ executor.pc = "interpret"
    /\ executor.surprises < MaxSurprises
    /\ executor' = [Startled(executor) EXCEPT
                        !.pc = "done", !.returned = ToolsErrorText(executor.response)]
    /\ UNCHANGED <<handler_vars, manager_call, startup, unit_vars>>

\* ------------------------------------------------------------------------
\* Direct calls of ConversationManager (conversation/manager.py)
\* ------------------------------------------------------------------------
ManagerKeys == {"C1-t1", "C2-t2"}

ManagerContents == {<<"hello">>, <<"more">>}

\* The limits get_messages is called with: the default and 0..MaxHistory.
ManagerLimits == {DEFAULT_CONVERSATION_HISTORY_LIMIT} \cup 0..MaxHistory

NoManagerCall ==
    [op |-> "none", key |-> None, limit |-> 0, before |-> << >>, result |-> << >>]

HistoryOf(convs, conversation_id) ==
    IF conversation_id \in DOMAIN convs THEN convs[conversation_id] ELSE << >>

ManagerAddMessage(conversation_id, content) ==
    /\ Len(HistoryOf(conversations, conversation_id)) < MaxHistory
    /\ conversations' = add_message(conversations, conversation_id, "user", content)
    /\ manager_call' = [op |-> "add_message", key |-> conversation_id, limit |-> 0,
                        before |-> conversations, result |-> << >>]
    /\ UNCHANGED <<bot_id, chat, task, env, executor, startup, unit_vars>>

ManagerGetMessages(conversation_id, limit) ==
    LET got == get_messages(conversations, conversation_id, limit)
    IN  /\ conversations' = got.store
        /\ manager_call' = [op |-> "get_messages", key |-> conversation_id,
                            limit |-> limit, before |-> conversations,
                            result |-> got.result]
        /\ UNCHANGED <<bot_id, chat, task, env, executor, startup, unit_vars>>

\* The conversation returned is the one the store holds under the key.
ManagerGetOrCreate(conversation_id) ==
    /\ conversations' = get_or_create_conversation(conversations, conversation_id)
    /\ manager_call' = [op |-> "get_or_create_conversation", key |-> conversation_id,
                        limit |-> 0, before |-> conversations,
                        result |-> conversations'[conversation_id]]
    /\ UNCHANGED <<bot_id, chat, task, env, executor, startup, unit_vars>>

ManagerClear(conversation_id) ==
    /\ conversations' = clear_conversation(conversations, conversation_id)
    /\ manager_call' = [op |-> "clear_conversation", key |-> conversation_id,
                        limit |-> 0, before |-> conversations, result |-> << >>]
    /\ UNCHANGED <<bot_id, chat, task, env, executor, startup, unit_vars>>

\* ------------------------------------------------------------------------
\* LLMClient and BaseLLMClient (llm/client.py)
\* ------------------------------------------------------------------------
\* Model identifiers, written as the prefix get_response tests and the rest.
LlmModels ==
    {<<"gpt-", "4-turbo">>, <<"ft:gpt-", "custom">>, <<"llama-", "3">>,
     <<"claude-", "3">>, <<"mistral-", "7b">>}

\* self.model.startswith(prefix)
startswith(model, prefix) == model[1] = prefix

\* The error_message the Groq client passes to _handle_request_with_retries.
GROQ_ERROR == "Error getting response from Groq"

\* The client get_response builds for the model (97-104), given by the
\* error_message of its requests; None when the model is not supported.
ErrorMessageOf(model) ==
    IF startswith(model, "gpt-") \/ startswith(model, "ft:gpt-")
    THEN "Error getting response from OpenAI"
    ELSE IF startswith(model, "llama-") THEN GROQ_ERROR
    ELSE IF startswith(model, "claude-") THEN "Error getting response from Anthropic"
    ELSE None

\* Texts of the exceptions a request may raise.
RequestErrors == {BOOM, "timeout"}

\* The locals of one get_response call; attempts logs what each call of
\* request_func did, sleeps the arguments of asyncio.sleep.
LlmIdle ==
    [pc |-> "idle", model |-> << >>, error_message |-> None, attempt |-> 0,
     attempts |-> << >>, sleeps |-> << >>, outcome |-> None, value |-> << >>]

\* get_response up to its first await (97-106, 53-55).
get_response(x, model) ==
    IF ErrorMessageOf(model) = None
    THEN [x EXCEPT !.pc = "done", !.model = model, !.outcome = "raised",
                   !.value = <<"Unsupported model:">> \o model]
    ELSE [x EXCEPT !.pc = "request", !.model = model,
                   !.error_message = ErrorMessageOf(model), !.attempt = 0]

\* request_func returned: return result (55-56).
OnRequestResult(x, text) ==
    [x EXCEPT !.pc = "done", !.outcome = "returned", !.value = text,
              !.attempts = Append(@, [ok |-> TRUE, text |-> text])]

\* Mutation: the exception of the last attempt is raised again.
OnRequestError_Reraises(x, err) ==
    IF x.attempt = DEFAULT_MAX_RETRIES
    THEN [x EXCEPT !.pc = "done", !.outcome = "raised", !.value = <<err>>,
                   !.attempts = Append(@, [ok |-> FALSE, text |-> err])]
    ELSE [x EXCEPT !.pc = "sleep", !.sleeps = Append(@, 2 ^ x.attempt),
                   !.attempts = Append(@, [ok |-> FALSE, text |-> err])]

\* request_func raised (57-61).
OnRequestError(x, err) ==
    IF x.attempt = DEFAULT_MAX_RETRIES
    THEN [x EXCEPT !.pc = "done", !.outcome = "returned",
                   !.value = <<x.error_message, ":", err>>,
                   !.attempts = Append(@, [ok |-> FALSE, text |-> err])]
    ELSE [x EXCEPT !.pc = "sleep", !.sleeps = Append(@, 2 ^ x.attempt),
                   !.attempts = Append(@, [ok |-> FALSE, text |-> err])]

\* asyncio.sleep returned: the next attempt of the for loop (53).
OnSleepOver(x) == [x EXCEPT !.pc = "request", !.attempt = @ + 1]

GetResponse(model) ==
    /\ llm.pc = "idle"
    /\ llm' = get_response(llm, model)
    /\ UNCHANGED <<handler_vars, executor, manager_call, startup, server_call, parser>>

RequestReturns(text) ==
    /\ llm.pc = "request"
    /\ llm' = OnRequestResult(llm, text)
    /\ UNCHANGED <<handler_vars, executor, manager_call, startup, server_call, parser>>

RequestRaises(err) ==
    /\ llm.pc = "request"
    /\ llm' = OnRequestError(llm, err)
    /\ UNCHANGED <<handler_vars, executor, manager_call, startup, server_call, parser>>

SleepReturns ==
    /\ llm.pc = "sleep"
    /\ llm' = OnSleepOver(llm)
    /\ UNCHANGED <<handler_vars, executor, manager_call, startup, server_call, parser>>


\* ------------------------------------------------------------------------
\* Server.execute_tool (main.py)
\* ------------------------------------------------------------------------
\* The largest retries argument a caller passes here.
MaxRetries == 2

\* The delay arguments a caller passes here, in seconds.
Delays == {1, 3}

\* Texts of the exceptions call_tool may raise, and the values it may return.
CallErrors == {BOOM, "timeout"}

CallResults == {RESULT, JSON_EMPTY}

\* The tool names and argument dicts a caller passes here.
CallNames == {"lookup", "search"}

CallArguments == {json_loads(JSON_EMPTY).value, json_loads(JSON_QUERY).value}

\* The text of the RuntimeError of a server without a session (178).
NOT_INITIALIZED == <<"Server", "not initialized">>

\* The locals of one execute_tool call; attempts logs what each call of
\* session.call_tool did, sleeps the arguments of asyncio.sleep.
ServerCallIdle ==
    [pc |-> "idle", session |-> TRUE, tool_name |-> None, arguments |-> None,
     retries |-> 0, delay |-> 0, attempt |-> 0,
     attempts |-> << >>, sleeps |-> << >>, outcome |-> None, value |-> None]

\* execute_tool up to its first await (177-184).  With retries = 0 the
\* while loop is never entered and the function ends without a return
\* statement: the call gives None.
execute_tool(x, session, tool_name, arguments, retries, delay) ==
    LET y == [x EXCEPT !.session = session, !.tool_name = tool_name,
                       !.arguments = arguments, !.retries = retries,
                       !.delay = delay, !.attempt = 0]
    IN  IF ~session
        THEN [y EXCEPT !.pc = "done", !.outcome = "raised", !.value = NOT_INITIALIZED]
        ELSE IF 0 < retries
        THEN [y EXCEPT !.pc = "call_tool"]
        ELSE [y EXCEPT !.pc = "done", !.outcome = "returned", !.value = None]

\* call_tool returned: return result (184-185).
OnCallResult(x, result) ==
    [x EXCEPT !.pc = "done", !.outcome = "returned", !.value = result,
              !.attempts = Append(@, [ok |-> TRUE, value |-> result])]

\* call_tool raised (186-196): count the attempt, then wait or re-raise.
OnCallError(x, err) ==
    LET attempt == x.attempt + 1
        y == [x EXCEPT !.attempt = attempt,
                       !.attempts = Append(@, [ok |-> FALSE, value |-> err])]
    IN  IF attempt < x.retries
        THEN [y EXCEPT !.pc = "sleep", !.sleeps = Append(@, x.delay)]
        ELSE [y EXCEPT !.pc = "done", !.outcome = "raised", !.value = err]

\* asyncio.sleep returned: the while loop tests attempt < retries again,
\* which holds since it held before the wait (181, 191-193).
OnDelayOver(x) == [x EXCEPT !.pc = "call_tool"]

ExecuteTool(session, tool_name, arguments, retries, delay) ==
    /\ server_call.pc = "idle"
    /\ server_call' = execute_tool(server_call, session, tool_name, arguments,
                                   retries, delay)
    /\ UNCHANGED <<handler_vars, executor, manager_call, startup, llm, parser>>

CallToolReturns(result) ==
    /\ server_call.pc = "call_tool"
    /\ server_call' = OnCallResult(server_call, result)
    /\ UNCHANGED <<handler_vars, executor, manager_call, startup, llm, parser>>

CallToolRaises(err) ==
    /\ server_call.pc = "call_tool"
    /\ server_call' = OnCallError(server_call, err)
    /\ UNCHANGED <<handler_vars, executor, manager_call, startup, llm, parser>>

DelayReturns ==
    /\ server_call.pc = "sleep"
    /\ server_call' = OnDelayOver(server_call)
    /\ UNCHANGED <<handler_vars, executor, manager_call, startup, llm, parser>>

\* ------------------------------------------------------------------------
\* ToolParser on texts written lexeme by lexeme (tools/parser.py)
\* ------------------------------------------------------------------------
\* A text is a sequence of lexemes: the marker, line breaks, braces, words
\* and pieces of JSON.  Lexemes on one line are separated by single blanks,
\* which are not written.  No lexeme but "}" holds a closing brace, and no
\* lexeme but NL holds a line break.
LBRACE == "{"

RBRACE == "}"

\* The member "q": "x", the key "f": of a nested object, and the two halves
\* of the member "s": "a}b", whose string value holds a closing brace.
MEMBER_Q == "\"q\": \"x\""

KEY_F == "\"f\":"

STRING_OPEN == "\"s\": \"a"

STRING_CLOSE == "b\""

\* The largest number of segments a text is made of.
MaxSegments == 2

ObjectKinds == {"empty", "flat", "multiline", "nested", "brace_in_string"}

\* json.dumps, for the objects written here: the text of an object.
ObjectText(kind) ==
    CASE kind = "empty"           -> <<LBRACE, RBRACE>>
      [] kind = "flat"            -> <<LBRACE, MEMBER_Q, RBRACE>>
      [] kind = "multiline"       -> <<LBRACE, NL, MEMBER_Q, NL, RBRACE>>
      [] kind = "nested"          -> <<LBRACE, KEY_F, LBRACE, MEMBER_Q, RBRACE, RBRACE>>
      [] kind = "brace_in_string" -> <<LBRACE, STRING_OPEN, RBRACE, STRING_CLOSE, RBRACE>>

\* The dict the text of that kind stands for.
ObjectValue(kind) ==
    CASE kind = "empty"           -> {}
      [] kind = "flat"            -> {<<"q", "x">>}
      [] kind = "multiline"       -> {<<"q", "x">>}
      [] kind = "nested"          -> {<<"f", {<<"q", "x">>}>>}
      [] kind = "brace_in_string" -> {<<"s", "a}b">>}

\* json.loads (41) on a text of lexemes: white space between the lexemes of
\* an object is skipped, a line break inside a string is not, and any text
\* that is not a complete object is rejected (JSONDecodeError).
loads(args_text) ==
    LET u == SelectSeq(args_text, LAMBDA l : l # NL)
        raw_break == \E i \in 1..(Len(args_text) - 1) :
                        /\ args_text[i] \in {STRING_OPEN, RBRACE}
                        /\ args_text[i + 1] = NL
                        /\ \E j \in (i + 1)..Len(args_text) : args_text[j] = STRING_CLOSE
    IN  IF \E kind \in ObjectKinds \ {"multiline"} :
               u = ObjectText(kind) /\ (kind = "brace_in_string" => ~raw_break)
        THEN [ok |-> TRUE,
              value |-> ObjectValue(CHOOSE kind \in ObjectKinds \ {"multiline"} :
                                       u = ObjectText(kind))]
        ELSE [ok |-> FALSE, value |-> {}]

\* The first position from i on whose lexeme is not a line break: what
\* \s* skips.  Len + 1 when there is none.
RECURSIVE SkipBreaks(_, _)
SkipBreaks(response, i) ==
    IF i <= Len(response) /\ response[i] = NL
    THEN SkipBreaks(response, i + 1)
    ELSE i

\* The first position from i on whose lexeme is tok, Len + 1 when none.
RECURSIVE IndexOf(_, _, _)
IndexOf(response, tok, i) ==
    IF i <= Len(response) /\ response[i] # tok
    THEN IndexOf(response, tok, i + 1)
    ELSE i

\* The match of \[TOOL\]\s*([^\n]+)\s*\n\s*(\{.*?\}) with re.DOTALL that
\* starts at position i (28, 32): the marker; line breaks; group 1, every
\* lexeme up to the next line break, at least one; line breaks; group 2,
\* from an opening brace up to the first closing brace after it.
PatternAt(response, i) ==
    LET name_from  == SkipBreaks(response, i + 1)
        name_until == IndexOf(response, NL, name_from)
        args_from  == SkipBreaks(response, name_until)
        args_until == IndexOf(response, RBRACE, args_from + 1)
        found      == /\ response[i] = MARKER
                      /\ name_from < name_until
                      /\ name_until <= Len(response)
                      /\ args_from <= Len(response)
                      /\ response[args_from] = LBRACE
                      /\ args_until <= Len(response)
    IN  [found |-> found,
         tool_name |-> IF found THEN SubSeq(response, name_from, name_until - 1)
                       ELSE << >>,
         args_text |-> IF found THEN SubSeq(response, args_from, args_until)
                       ELSE << >>,
         end |-> args_until]

\* re.findall (32): the matches from position i on, left to right, each
\* search resuming behind the previous match.
RECURSIVE findall(_, _)
findall(response, i) ==
    IF i > Len(response) THEN << >>
    ELSE LET m == PatternAt(response, i)
         IN  IF m.found
             THEN << <<m.tool_name, m.args_text>> >> \o findall(response, m.end + 1)
             ELSE findall(response, i + 1)

\* The loop over the matches (36-51): a text json.loads rejects is logged
\* and dropped.  tool_name is the lexemes of group 1.
RECURSIVE LoadMatches(_)
LoadMatches(matches) ==
    IF matches = << >> THEN << >>
    ELSE LET m == Head(matches)
             j == loads(m[2])
         IN  (IF j.ok
              THEN << [tool_name |-> m[1], arguments |-> j.value] >>
              ELSE << >>) \o LoadMatches(Tail(matches))

ToolParser_extract_tool_calls(response) ==
    IF ~Contains(response, MARKER) THEN << >>
    ELSE LoadMatches(findall(response, 1))

\* str.strip: the text without its leading and trailing line breaks.
RECURSIVE strip(_)
strip(text) ==
    IF text = << >> THEN << >>
    ELSE IF Head(text) = NL THEN strip(Tail(text))
    ELSE IF text[Len(text)] = NL THEN strip(SubSeq(text, 1, Len(text) - 1))
    ELSE text

\* Mutation: the text is stripped also when it holds no marker.
ToolParser_split_response_Strips(response) ==
    IF ~Contains(response, MARKER)
    THEN [non_tool_content |-> strip(response), tool_calls |-> << >>]
    ELSE [non_tool_content |-> strip(SubSeq(response, 1, IndexOf(response, MARKER, 1) - 1)),
          tool_calls |-> ToolParser_extract_tool_calls(response)]

\* split_response (66-73); parts[0] is the text before the first marker.
ToolParser_split_response(response) ==
    IF ~Contains(response, MARKER)
    THEN [non_tool_content |-> response, tool_calls |-> << >>]
    ELSE [non_tool_content |-> strip(SubSeq(response, 1, IndexOf(response, MARKER, 1) - 1)),
          tool_calls |-> ToolParser_extract_tool_calls(response)]

\* The segments a text is written from.  call tells what a well-formed
\* segment asks for.
NoInvocation == [tool_name |-> << >>, arguments |-> {}]

Invocation(name, kind) ==
    [kind |-> kind,
     text |-> <<MARKER, name, NL>> \o ObjectText(kind) \o <<NL>>,
     call |-> [tool_name |-> <<name>>, arguments |-> ObjectValue(kind)]]

\* A marker line with nothing behind it, with a closed text that is no
\* JSON, and with an object that is never closed.
Broken(kind) ==
    [kind |-> kind,
     text |-> CASE kind = "missing"  -> <<MARKER, "lookup", NL>>
                [] kind = "invalid"  -> <<MARKER, "lookup", NL, LBRACE, "oops", RBRACE, NL>>
                [] kind = "unclosed" -> <<MARKER, "lookup", NL, LBRACE, "oops", NL>>,
     call |-> NoInvocation]

BrokenKinds == {"missing", "invalid", "unclosed"}

Prose(words) == [kind |-> "prose", text |-> words \o <<NL>>, call |-> NoInvocation]

Segments ==
    {Invocation(name, kind) : name \in CallNames, kind \in ObjectKinds}
        \cup {Broken(kind) : kind \in BrokenKinds}
        \cup {Prose(<<"hello">>), Prose(<<NL, "see", LBRACE, "this", RBRACE>>)}

\* The text under construction, what it was written from, and what the
\* parser made of it.
ParserIdle ==
    [pc |-> "writing", written |-> << >>, response |-> << >>,
     non_tool_content |-> << >>, tool_calls |-> << >>]

WriteSegment(seg) ==
    /\ parser.pc = "writing"
    /\ Len(parser.written) < MaxSegments
    /\ parser' = [parser EXCEPT !.written = Append(@, [kind |-> seg.kind, call |-> seg.call]),
                                !.response = @ \o seg.text]
    /\ UNCHANGED <<handler_vars, executor, manager_call, startup, llm, server_call>>

ExtractToolCalls ==
    /\ parser.pc = "writing"
    /\ parser' = [parser EXCEPT !.pc = "extracted",
                     !.tool_calls = ToolParser_extract_tool_calls(parser.response)]
    /\ UNCHANGED <<handler_vars, executor, manager_call, startup, llm, server_call>>

SplitResponse ==
    /\ parser.pc = "writing"
    /\ LET got == ToolParser_split_response(parser.response)
       IN  parser' = [parser EXCEPT !.pc = "split",
                         !.non_tool_content = got.non_tool_content,
                         !.tool_calls = got.tool_calls]
    /\ UNCHANGED <<handler_vars, executor, manager_call, startup, llm, server_call>>

\* ------------------------------------------------------------------------
\* SlackMCPBot.start (slack/bot.py) and SlackEventHandlers.__init__
\* ------------------------------------------------------------------------
\* A Tool: its name, is_system, and in `server` the provider that listed it
\* (0 for the tools the handlers create), which stands for its description
\* and input schema.
Tool(name, is_system, server) ==
    [name |-> name, is_system |-> is_system, server |-> server]

\* The system tools the handlers append to their copy of the tools (47-76).
SystemTools == <<Tool("handoff", TRUE, 0), Tool("end_response", TRUE, 0)>>

\* Server.list_tools: one Tool per name of the catalog, in its order.
ToolsOf(s) == [k \in 1..Len(Catalog[s]) |-> Tool(Catalog[s][k], FALSE, s)]

\* After SlackMCPBot.__init__ (44-60): the bot has no tools, the handlers
\* hold a copy of that empty list plus the system tools.
Constructed ==
    [pc |-> "initialize", srv |-> 1, tools |-> << >>,
     handler_tools |-> << >> \o SystemTools, surprises |-> 0,
     sessions |-> [s \in Servers |-> FALSE]]

\* for server in self.servers (73); after the loop
\* self.event_handlers.tools = self.tools (85), then auth_test (90).
NextServerStart(x) ==
    IF x.srv < Len(Catalog)
    THEN [x EXCEPT !.srv = @ + 1, !.pc = "initialize"]
    ELSE [x EXCEPT !.pc = "auth", !.handler_tools = x.tools]

RECURSIVE StartAll(_)
\* initialize_servers when no call raises.
StartAll(x) ==
    IF x.pc = "auth" THEN x
    ELSE StartAll(NextServerStart([x EXCEPT !.tools = @ \o ToolsOf(x.srv),
                                            !.sessions[x.srv] = TRUE]))

\* start() has run without a failure.
Started == [StartAll(Constructed) EXCEPT !.pc = "started"]

\* server.initialize() returns (75), the server has its session;
\* list_tools is awaited (76).
InitializeReturns ==
    /\ startup.pc = "initialize"
    /\ startup' = [startup EXCEPT !.pc = "list", !.sessions[startup.srv] = TRUE]
    /\ UNCHANGED <<handler_vars, executor, manager_call, unit_vars>>

\* server.initialize() raises, the server stays without a session:
\* logged, the next server (81-82).
InitializeRaises ==
    /\ startup.pc = "initialize"
    /\ startup.surprises < MaxSurprises
    /\ startup' = NextServerStart([startup EXCEPT !.surprises = @ + 1])
    /\ UNCHANGED <<handler_vars, executor, manager_call, unit_vars>>

\* list_tools returns: self.tools.extend(server_tools) (76-77).
StartListReturns ==
    /\ startup.pc = "list"
    /\ startup' = NextServerStart([startup EXCEPT !.tools = @ \o ToolsOf(startup.srv)])
    /\ UNCHANGED <<handler_vars, executor, manager_call, unit_vars>>

\* list_tools raises (81-82).
StartListRaises ==
    /\ startup.pc = "list"
    /\ startup.surprises < MaxSurprises
    /\ startup' = NextServerStart([startup EXCEPT !.surprises = @ + 1])
    /\ UNCHANGED <<handler_vars, executor, manager_call, unit_vars>>

\* auth_test returns the bot's user id, set_bot_id (90-94).
AuthTestReturns ==
    /\ startup.pc = "auth"
    /\ bot_id' = BOT
    /\ startup' = [startup EXCEPT !.pc = "started"]
    /\ UNCHANGED <<conversations, chat, task, env, executor, manager_call, unit_vars>>

\* auth_test raises: the handlers keep the bot id they were built with (95-97).
AuthTestRaises ==
    /\ startup.pc = "auth"
    /\ startup.surprises < MaxSurprises
    /\ startup' = [startup EXCEPT !.pc = "started", !.surprises = @ + 1]
    /\ UNCHANGED <<handler_vars, executor, manager_call, unit_vars>>

\* ------------------------------------------------------------------------
\* Specification: one inbound event is processed
\* ------------------------------------------------------------------------
\* Nothing has been received or called yet.
Quiet ==
    /\ conversations = << >>
    /\ chat = << >>
    /\ task = [e \in Events |-> Idle]
    /\ env = [e \in Events |-> [habit |-> R_answer, surprises |-> 0]]
    /\ executor = ExecutorIdle
    /\ manager_call = NoManagerCall
    /\ llm = LlmIdle
    /\ server_call = ServerCallIdle
    /\ parser = ParserIdle

\* The bot has started: every server was initialized and listed, and
\* auth_test gave the bot's id.
Init ==
    /\ bot_id = BOT
    /\ startup = Started
    /\ Quiet

SpecEvents == {1}

\* What the coroutine of event e, or its environment, may do next.
Step(e) ==
    \/ \E ev \in InboundEvents(e) : Receive(e, ev)
    \/ \E r \in Greetings : GreetingReturns(e, r)
    \/ CompletionRaises(e)
    \/ GreetingSaid(e)
    \/ \E r \in Responses : CompletionReturns(e, r)
    \/ AnswerSaid(e)
    \/ HandoffSaid(e)
    \/ ListToolsReturns(e)
    \/ ListToolsRaises(e)
    \/ FindReturns(e)
    \/ FindRaises(e)
    \/ UsingSaid(e)
    \/ ExecuteReturns(e)
    \/ ExecuteRaises(e)
    \/ ErrorSaid(e)
    \/ NotFoundSaid(e)
    \/ MaxStepsSaid(e)
    \/ ApologySaid(e)

Next == \E e \in SpecEvents : Step(e)

Spec == Init /\ [][Next]_vars

\* ------------------------------------------------------------------------
\* Specification: one text is given to ToolExecutor.process_tool_calls
\* ------------------------------------------------------------------------
ExecutorNext ==
    \/ \E response \in ExecutorInputs : ProcessToolCalls(response)
    \/ DispatchListReturns
    \/ DispatchListRaises
    \/ DispatchExecuteReturns
    \/ DispatchExecuteRaises
    \/ InterpretationReturns
    \/ InterpretationRaises

ExecutorSpec == Init /\ [][ExecutorNext]_vars

\* ------------------------------------------------------------------------
\* Specification: a client calls ConversationManager directly
\* ------------------------------------------------------------------------
ManagerNext ==
    \/ \E k \in ManagerKeys, c \in ManagerContents : ManagerAddMessage(k, c)
    \/ \E k \in ManagerKeys, limit \in ManagerLimits : ManagerGetMessages(k, limit)
    \/ \E k \in ManagerKeys : ManagerGetOrCreate(k)
    \/ \E k \in ManagerKeys : ManagerClear(k)

ManagerSpec == Init /\ [][ManagerNext]_vars

\* ------------------------------------------------------------------------
\* Specification: two inbound events are processed concurrently.  Bolt
\* starts one coroutine per event; they interleave at their awaits.  The
\* Completion Provider habitually ends the response at once, and only the
\* first event meets surprises.
\* ------------------------------------------------------------------------
ConcurrentStep(e) ==
    /\ Step(e)
    /\ env'[e].habit = R_end
    /\ env'[2].surprises = 0

ConcurrentNext == \E e \in Events : ConcurrentStep(e)

ConcurrentSpec == Init /\ [][ConcurrentNext]_vars

\* ------------------------------------------------------------------------
\* Specification: the bot is constructed and started, then one inbound
\* event is processed.  The socket-mode handler is started after
\* initialize_servers and initialize_bot_info (101-105), so events arrive
\* once start() is through.  The Completion Provider habitually ends the
\* response at once.
\* ------------------------------------------------------------------------
StartupInit ==
    /\ bot_id = None
    /\ startup = Constructed
    /\ Quiet

StartedStep(e) ==
    /\ startup.pc = "started"
    /\ Step(e)
    /\ env'[e].habit = R_end

StartupNext ==
    \/ InitializeReturns
    \/ InitializeRaises
    \/ StartListReturns
    \/ StartListRaises
    \/ AuthTestReturns
    \/ AuthTestRaises
    \/ \E e \in SpecEvents : StartedStep(e)

StartupSpec == StartupInit /\ [][StartupNext]_vars

\* ------------------------------------------------------------------------
\* Specification: one call of LLMClient.get_response
\* ------------------------------------------------------------------------
LlmNext ==
    \/ \E model \in LlmModels : GetResponse(model)
    \/ \E text \in Responses : RequestReturns(text)
    \/ \E err \in RequestErrors : RequestRaises(err)
    \/ SleepReturns

LlmSpec == Init /\ [][LlmNext]_vars

\* ------------------------------------------------------------------------
\* Specification: one call of Server.execute_tool
\* ------------------------------------------------------------------------
ServerCallNext ==
    \/ \E session \in BOOLEAN, tool_name \in CallNames,
          arguments \in CallArguments,
          retries \in 0..MaxRetries, delay \in Delays :
          ExecuteTool(session, tool_name, arguments, retries, delay)
    \/ \E result \in CallResults : CallToolReturns(result)
    \/ \E err \in CallErrors : CallToolRaises(err)
    \/ DelayReturns

ServerCallSpec == Init /\ [][ServerCallNext]_vars

\* ------------------------------------------------------------------------
\* Specification: the bot is constructed and started, then one text is
\* given to ToolExecutor.process_tool_calls, whose servers are the ones
\* start() initialized (bot.py 51)
\* ------------------------------------------------------------------------
StartedDispatch ==
    /\ startup.pc = "started"
    /\ ExecutorNext

RegistryNext ==
    \/ InitializeReturns
    \/ InitializeRaises
    \/ StartListReturns
    \/ StartListRaises
    \/ AuthTestReturns
    \/ AuthTestRaises
    \/ StartedDispatch

RegistrySpec == StartupInit /\ [][RegistryNext]_vars

\* ------------------------------------------------------------------------
\* Specification: a text is written segment by segment and given to
\* ToolParser
\* ------------------------------------------------------------------------
ParserNext ==
    \/ \E seg \in Segments : WriteSegment(seg)
    \/ ExtractToolCalls
    \/ SplitResponse

ParserSpec == Init /\ [][ParserNext]_vars

\* Every external call eventually returns or raises, and the event loop
\* resumes a coroutine whose await has completed.
FairSpec == Spec /\ \A e \in SpecEvents : WF_vars(Step(e))

\* ------------------------------------------------------------------------
\* Vocabulary of the properties
\* ------------------------------------------------------------------------
\* What event e has relayed to the chat, in order.
ChatOf(e) == SelectSeq(chat, LAMBDA m : m.event = e)

\* How many elements of sequence s satisfy Test.
Count(s, Test(_)) == Cardinality({i \in 1..Len(s) : Test(s[i])})

IsPrefix(s, u) == Len(s) <= Len(u) /\ SubSeq(u, 1, Len(s)) = s

CallsOf(response) == split_response(response).tool_calls

\* The invocation selected from the response is end_response.
SelectsEnd(response) ==
    CallsOf(response) # << >> /\ CallsOf(response)[1].tool_name = "end_response"

NoEndSelected(t) == \A i \in 1..Len(t.responses) : ~SelectsEnd(t.responses[i])

\* _process_message went past the self-message check for this event.
Accepted(t) == t.conversation_id # None

\* ------------------------------------------------------------------------
\* C1.  Without an end_response and without an exception reaching the
\* handler, the loop requests exactly max_iterations completions and then
\* stops, whatever the completions were; and it never requests more.
\* ------------------------------------------------------------------------
C1_ExactlyMaxIterations ==
    \A e \in Events :
        LET t == task[e]
        IN  /\ t.completions <= 10
            /\ (t.pc = "done" /\ Accepted(t) /\ t.error = None /\ NoEndSelected(t))
                  => (t.completions = 10 /\ Len(t.responses) = 10)

C1_Witness ==
    \E e \in Events :
        LET t == task[e]
        IN  /\ t.pc = "done" /\ t.error = None /\ NoEndSelected(t)
            /\ t.completions = 10
            /\ \E i \in 1..Len(t.responses) : Contains(t.responses[i], MARKER)
            /\ \E i \in 1..Len(t.responses) : ~Contains(t.responses[i], MARKER)

\* ------------------------------------------------------------------------
\* C2.  Processing of an inbound event always eventually finishes, when
\* every external call eventually returns or raises.
\* ------------------------------------------------------------------------
C2_Terminates ==
    /\ \A e \in SpecEvents : (task[e].pc # "idle") ~> (task[e].pc = "done")
    /\ [](\A e \in Events : task[e].iterations <= max_iterations)

C2_Witness ==
    \E e \in SpecEvents :
        /\ task[e].pc = "done" /\ task[e].iterations = max_iterations
        /\ NoEndSelected(task[e]) /\ task[e].contacts # << >>

\* ------------------------------------------------------------------------
\* More vocabulary
\* ------------------------------------------------------------------------
Last(s) == s[Len(s)]

Plain(response) == ~Contains(response, MARKER)

Malformed(response) == Contains(response, MARKER) /\ CallsOf(response) = << >>

Multi(response) == Len(CallsOf(response)) > 1

\* In this step the completion awaited by the loop of event e arrives.
Arrives(e) ==
    /\ task[e].pc = "loop_llm"
    /\ Len(task'[e].responses) = Len(task[e].responses) + 1

\* In this step event e relays exactly `text` and nothing else.
Relays(e, text) ==
    /\ Len(ChatOf(e)') = Len(ChatOf(e)) + 1
    /\ SubSeq(ChatOf(e)', 1, Len(ChatOf(e))) = ChatOf(e)
    /\ Last(ChatOf(e)').text = text

Silent(e) == ChatOf(e)' = ChatOf(e)

\* The loop of event e is back at its head: the next completion is
\* requested with the accumulated context, unless the cap is reached.
BackAtLoopHead(e) ==
    /\ ~task'[e].response_complete
    /\ IF task[e].iterations < max_iterations
       THEN /\ task'[e].pc = "loop_llm"
            /\ task'[e].iterations = task[e].iterations + 1
            /\ task'[e].completions = task[e].completions + 1
            /\ task'[e].request = task'[e].messages
       ELSE /\ task'[e].pc = "done"
            /\ task'[e].completions = task[e].completions

\* How often event e relayed `text` in iteration i.
RelayedIn(e, i, text) ==
    Cardinality({k \in 1..Len(chat) :
        chat[k].event = e /\ chat[k].iteration = i /\ chat[k].text = text})

RECURSIVE IsSubsequence(_, _)
\* The elements of a occur in b, in the order of a.
IsSubsequence(a, b) ==
    IF a = << >> THEN TRUE
    ELSE IF b = << >> THEN FALSE
    ELSE IF Head(a) = Head(b) THEN IsSubsequence(Tail(a), Tail(b))
    ELSE IsSubsequence(a, Tail(b))

\* ------------------------------------------------------------------------
\* C3.  When the selected invocation is end_response the loop stops in that
\* very step: no completion is requested, no Tool Provider is contacted and
\* nothing is relayed, then or later; a provider that always returns the
\* end_response call makes the loop run exactly one iteration.
\* ------------------------------------------------------------------------
C3_EndStopsAtOnce ==
    [][\A e \in Events :
        LET t == task[e]
            t2 == task'[e]
        IN  /\ (Arrives(e) /\ SelectsEnd(Last(t2.responses)))
                  => /\ t2.pc = "done" /\ t2.response_complete
                     /\ Silent(e)
                     /\ t2.contacts = t.contacts
                     /\ t2.completions = t.completions
            /\ (t.pc = "done") => (t2 = t /\ Silent(e))
            /\ (t2.pc = "done" /\ t2.responses # << >>
                  /\ \A i \in 1..Len(t2.responses) : SelectsEnd(t2.responses[i]))
                  => (t2.iterations = 1 /\ t2.completions = 1)
    ]_vars

C3_Witness ==
    \E e \in Events :
        LET t == task[e]
        IN  /\ t.pc = "done" /\ t.response_complete
            /\ Len(t.responses) > 1 /\ SelectsEnd(Last(t.responses))
            /\ Multi(Last(t.responses))
            /\ t.contacts # << >>

\* ------------------------------------------------------------------------
\* C4.  Whenever the loop stops at the cap without an end_response having
\* been processed, the maximum-steps notice has been relayed exactly once,
\* whatever the last iteration received.
\* ------------------------------------------------------------------------
C4_MaxStepsNoticeAlways ==
    \A e \in Events :
        LET t == task[e]
        IN  (t.pc = "done" /\ Accepted(t) /\ t.error = None /\ NoEndSelected(t)
               /\ t.iterations = max_iterations)
              => Count(ChatOf(e), LAMBDA m : m.text = MAX_STEPS) = 1

\* ------------------------------------------------------------------------
\* C5.  As claimed: in every iteration the raw completion is relayed to the
\* chat, also when it contains a tool call.
\* ------------------------------------------------------------------------
C5_RawAlwaysRelayed ==
    \A e \in Events :
        \A i \in 1..Len(task[e].responses) :
            RelayedIn(e, i, task[e].responses[i]) >= 1

\* C5, amended.  A completion without the marker is relayed raw in the step
\* in which it arrives, before anything else is done with it, and it is all
\* the iteration relays; a completion with the marker is never relayed raw.
C5_RawRelayedIffNoMarker ==
    \A e \in Events :
        \A i \in 1..Len(task[e].responses) :
            LET r == task[e].responses[i]
            IN  IF Plain(r)
                THEN /\ RelayedIn(e, i, r) = 1
                     /\ \A k \in 1..Len(chat) :
                           (chat[k].event = e /\ chat[k].iteration = i)
                              => chat[k].text = r
                ELSE RelayedIn(e, i, r) = 0

C5_Witness ==
    \E e \in Events :
        LET t == task[e]
        IN  \E i, j \in 1..Len(t.responses) :
               /\ Plain(t.responses[i]) /\ RelayedIn(e, i, t.responses[i]) = 1
               /\ ~Plain(t.responses[j]) /\ CallsOf(t.responses[j]) # << >>
               /\ \E k \in 1..Len(chat) : chat[k].event = e /\ chat[k].iteration = j

\* ------------------------------------------------------------------------
\* C6.  At every completion request of the loop the list passed holds, as
\* assistant messages in chronological order, every completion returned in
\* the earlier iterations of that loop.
\* ------------------------------------------------------------------------
AssistantContents(msgs) ==
    LET a == SelectSeq(msgs, LAMBDA m : m.role = "assistant")
    IN  [i \in 1..Len(a) |-> a[i].content]

C6_ContextHoldsResponses ==
    \A e \in Events :
        task[e].pc = "loop_llm"
           => IsSubsequence(task[e].responses, AssistantContents(task[e].request))

\* ------------------------------------------------------------------------
\* C7.  When get_response raises, in the greeting or in the loop, exactly
\* one apology is relayed for the event, no completion is requested and no
\* Tool Provider contacted afterwards, and the conversation keeps every
\* message it held.
\* ------------------------------------------------------------------------
\* In this step the completion awaited by event e fails.
Raises(e) ==
    /\ task[e].pc \in {"greeting_llm", "loop_llm"}
    /\ task'[e] # task[e]
    /\ task'[e].pc # "greeting_say"
    /\ task'[e].responses = task[e].responses

Apologies(e) == Count(ChatOf(e), LAMBDA m : m.text[1] = APOLOGY)

C7_OneApologyNothingLost ==
    [][\A e \in Events :
        LET t == task[e]
            t2 == task'[e]
        IN  /\ Raises(e)
                  => /\ t2.error # None /\ t2.pc = "apology_say"
                     /\ Relays(e, <<APOLOGY, t2.error>>)
                     /\ Apologies(e)' = 1
                     /\ t2.completions = t.completions
                     /\ t2.contacts = t.contacts
                     /\ t2.request = << >>
                     /\ conversations' = conversations
            /\ (t.error # None)
                  => /\ t2.pc \in {"apology_say", "done"}
                     /\ Silent(e)
                     /\ t2.completions = t.completions
                     /\ t2.contacts = t.contacts
                     /\ t2.request = << >>
                     /\ t.conversation_id \in DOMAIN conversations'
                     /\ IsPrefix(conversations[t.conversation_id],
                                 conversations'[t.conversation_id])
    ]_vars

C7_Witness ==
    \E e \in Events :
        LET t == task[e]
        IN  /\ t.pc = "done" /\ t.error # None
            /\ Apologies(e) = 1
            /\ t.iterations > 1
            /\ Len(conversations[t.conversation_id]) > 2

\* ------------------------------------------------------------------------
\* C8.  Of a completion that parses to several invocations only the first
\* is processed: what the iteration executes and relays concerns that one
\* alone, and the one-tool-call reminder is a system message of the context
\* of every later completion request.
\* ------------------------------------------------------------------------
\* What the loop may relay while it processes the invocation `call`.
NoticesFor(call) ==
    {HandoffMessage(call.arguments),
     <<"_Using tool:", call.tool_name, "_">>,
     <<"_Error executing tool", call.tool_name, BOOM, "_">>,
     <<"_Tool not found:", call.tool_name, "_">>,
     MAX_STEPS}

C8_OnlyFirstOfSeveral ==
    \A e \in Events :
        LET t == task[e]
        IN  /\ \A i \in 1..Len(t.responses) :
                 Multi(t.responses[i]) =>
                    LET first == CallsOf(t.responses[i])[1]
                    IN  /\ \A k \in 1..Len(t.contacts) :
                              (t.contacts[k].iteration = i
                                 /\ t.contacts[k].op = "execute_tool")
                                 => /\ t.contacts[k].name = first.tool_name
                                    /\ t.contacts[k].arguments = first.arguments
                        /\ \A k \in 1..Len(chat) :
                              (chat[k].event = e /\ chat[k].iteration = i)
                                 => chat[k].text \in NoticesFor(first)
                        /\ (t.pc = "loop_llm" /\ t.iterations > i)
                              => Contains(t.request, Message("system", REMINDER))
            /\ Count(t.messages, LAMBDA m : m = Message("system", REMINDER))
                  = Count(t.responses, Multi)

C8_Witness ==
    \E e \in Events :
        LET t == task[e]
        IN  /\ t.pc = "loop_llm"
            /\ \E i \in 1..Len(t.responses) :
                  /\ t.responses[i] = R_two_search /\ t.iterations > i
                  /\ \E k \in 1..Len(t.contacts) :
                        /\ t.contacts[k].iteration = i
                        /\ t.contacts[k].op = "execute_tool"
            /\ Contains(t.request, Message("system", REMINDER))

\* ------------------------------------------------------------------------
\* C9.  A completion with the marker from which no invocation parses adds
\* exactly one corrective system message to the context and nothing else,
\* is itself in the context of no later completion request, relays nothing,
\* contacts no Tool Provider, and leaves the loop at its head for the next
\* iteration (which the cap of max_iterations alone can prevent).
\* ------------------------------------------------------------------------
C9_MalformedIsCorrected ==
    /\ [][\A e \in Events :
            (Arrives(e) /\ Malformed(Last(task'[e].responses)))
               => /\ task'[e].messages =
                        Append(task[e].messages, Message("system", PARSE_ERROR))
                  /\ Silent(e)
                  /\ task'[e].contacts = task[e].contacts
                  /\ BackAtLoopHead(e)
       ]_vars
    /\ [](\A e \in Events :
            \A i \in 1..Len(task[e].responses) :
               Malformed(task[e].responses[i])
                  => /\ \A j \in 1..Len(task[e].messages) :
                           task[e].messages[j].content # task[e].responses[i]
                     /\ \A j \in 1..Len(task[e].request) :
                           task[e].request[j].content # task[e].responses[i])

C9_Witness ==
    \E e \in Events :
        LET t == task[e]
        IN  /\ t.pc = "loop_llm" /\ t.responses # << >>
            /\ Malformed(Last(t.responses))
            /\ Last(t.request) = Message("system", PARSE_ERROR)
            /\ t.iterations > 2

\* ------------------------------------------------------------------------
\* C10.  A completion without the marker is relayed exactly once and stored
\* as an assistant message of the conversation; the system message asking
\* for the end_response call is appended to the context of the next
\* completion request; the loop does not end on it but is back at its head
\* for the next iteration (which the cap of max_iterations alone can
\* prevent).
\* ------------------------------------------------------------------------
C10_AnswerThenPrompt ==
    /\ [][\A e \in Events :
            LET t == task[e]
                t2 == task'[e]
            IN  /\ (Arrives(e) /\ Plain(Last(t2.responses)))
                      => /\ Relays(e, Last(t2.responses))
                         /\ t2.pc = "answer_say"
                         /\ ~t2.response_complete
                         /\ t2.messages = t.messages
                         /\ conversations' = conversations
                /\ (t.pc = "answer_say" /\ t2 # t)
                      => /\ conversations'[t.conversation_id] =
                               Append(conversations[t.conversation_id],
                                      Message("assistant", Last(t.responses)))
                         /\ t2.messages =
                               Append(t.messages, Message("system", STEP5_PROMPT))
                         /\ Silent(e)
                         /\ BackAtLoopHead(e)
       ]_vars
    /\ [](\A e \in Events :
            \A i \in 1..Len(task[e].responses) :
               Plain(task[e].responses[i])
                  => RelayedIn(e, i, task[e].responses[i]) = 1)

C10_Witness ==
    \E e \in Events :
        LET t == task[e]
        IN  /\ t.pc = "loop_llm" /\ t.iterations > 1
            /\ Plain(Last(t.responses))
            /\ Last(t.request) = Message("system", STEP5_PROMPT)
            /\ Last(conversations[t.conversation_id])
                  = Message("assistant", Last(t.responses))

\* ------------------------------------------------------------------------
\* C11.  An invocation named handoff relays the italicised progress message,
\* appends exactly one synthetic assistant note to the context and leaves
\* the loop at its head, and in that iteration no Tool Provider is asked
\* for its catalog or to execute anything - although a provider lists a
\* tool named handoff.
\* ------------------------------------------------------------------------
SelectsHandoff(response) ==
    CallsOf(response) # << >> /\ CallsOf(response)[1].tool_name = "handoff"

HandoffNote(arguments) ==
    Message("assistant",
            <<"I sent an intermediate message:", dict_get(arguments, "message", None)>>)

C11_HandoffContactsNoProvider ==
    /\ [][\A e \in Events :
            LET t == task[e]
                t2 == task'[e]
            IN  /\ (Arrives(e) /\ SelectsHandoff(Last(t2.responses)))
                      => /\ Relays(e, HandoffMessage(CallsOf(Last(t2.responses))[1].arguments))
                         /\ t2.pc = "handoff_say"
                         /\ t2.contacts = t.contacts
                         /\ AssistantContents(t2.messages) = AssistantContents(t.messages)
                /\ (t.pc = "handoff_say" /\ t2 # t)
                      => /\ t2.messages =
                               Append(t.messages, HandoffNote(CallsOf(Last(t.responses))[1].arguments))
                         /\ Silent(e)
                         /\ t2.contacts = t.contacts
                         /\ BackAtLoopHead(e)
       ]_vars
    /\ [](\A e \in Events :
            \A i \in 1..Len(task[e].responses) :
               SelectsHandoff(task[e].responses[i])
                  => \A k \in 1..Len(task[e].contacts) :
                        task[e].contacts[k].iteration # i)

C11_Witness ==
    \E e \in Events :
        LET t == task[e]
        IN  /\ t.pc = "loop_llm" /\ t.responses # << >>
            /\ SelectsHandoff(Last(t.responses))
            /\ Last(t.request) = HandoffNote(CallsOf(Last(t.responses))[1].arguments)
            /\ \E s \in Servers : Contains(Catalog[s], "handoff")
            /\ t.contacts # << >>

\* ------------------------------------------------------------------------
\* C12.  When the selected invocation names a regular tool that some Tool
\* Provider has in its catalog, the notice 'Using tool: <name>' is in the
\* chat before execute_tool is called, execute_tool is called exactly once
\* in that iteration, with the parsed name and arguments, and the result
\* text or the failure text is in the context with which the next
\* completion is requested.
\* ------------------------------------------------------------------------
SelectsListedTool(response) ==
    /\ CallsOf(response) # << >>
    /\ CallsOf(response)[1].tool_name \notin {"handoff", "end_response"}
    /\ \E s \in Servers : Contains(Catalog[s], CallsOf(response)[1].tool_name)

\* The execute_tool calls event-handler frame t made in iteration i.
ExecutionsIn(t, i) ==
    {k \in 1..Len(t.contacts) :
        t.contacts[k].op = "execute_tool" /\ t.contacts[k].iteration = i}

OutcomeTexts(name) ==
    {Message("system", <<"Tool", name, "executed successfully. Result:", RESULT>>),
     Message("system", <<"Tool", name, "failed with error:", BOOM>>)}

C12_ListedToolExecutedOnce ==
    \A e \in Events :
        LET t == task[e]
        IN  \A i \in 1..Len(t.responses) :
               SelectsListedTool(t.responses[i]) =>
                  LET call == CallsOf(t.responses[i])[1]
                  IN  /\ \A k \in ExecutionsIn(t, i) :
                            /\ t.contacts[k].name = call.tool_name
                            /\ t.contacts[k].arguments = call.arguments
                      /\ Cardinality(ExecutionsIn(t, i)) <= 1
                      /\ (t.pc = "execute" /\ t.iterations = i)
                            => Last(ChatOf(e)).text = <<"_Using tool:", call.tool_name, "_">>
                      /\ (t.iterations > i \/ t.pc \in {"done", "maxsteps_say"})
                            => /\ Cardinality(ExecutionsIn(t, i)) = 1
                               /\ \E k \in 1..Len(t.messages) :
                                     t.messages[k] \in OutcomeTexts(call.tool_name)
                      /\ (t.iterations = i + 1 /\ t.pc = "loop_llm")
                            => \E k \in 1..Len(t.request) :
                                  t.request[k] \in OutcomeTexts(call.tool_name)

\* ------------------------------------------------------------------------
\* Vocabulary of the properties of the executor
\* ------------------------------------------------------------------------
\* The tokens of a occur in b next to one another, in the order of a.
IsInfix(a, b) ==
    \E k \in 0..(Len(b) - Len(a)) : SubSeq(b, k + 1, k + Len(a)) = a

Listed(tool_name) == \E s \in Servers : Contains(Catalog[s], tool_name)

\* The execute_tool calls and the list_tools calls made for tool call j.
ExecutesOf(x, j) ==
    {k \in 1..Len(x.contacts) :
        x.contacts[k].op = "execute_tool" /\ x.contacts[k].call = j}

ListingsOf(x, j) ==
    {k \in 1..Len(x.contacts) :
        x.contacts[k].op = "list_tools" /\ x.contacts[k].call = j}

\* Tool call j of the batch has been dispatched completely.
Dispatched(x, j) == x.i > j \/ (x.i = j /\ x.pc \in {"interpret", "done"})

FirstLister(tool_name) ==
    CHOOSE s \in Servers :
        /\ Contains(Catalog[s], tool_name)
        /\ \A r \in Servers : Contains(Catalog[r], tool_name) => s <= r

C14_FirstListerExecutesOnce ==
    LET x == executor
    IN  \A j \in 1..Len(x.tool_calls) :
           Listed(x.tool_calls[j].tool_name) =>
              /\ \A k \in ExecutesOf(x, j) :
                    /\ x.contacts[k].server = FirstLister(x.tool_calls[j].tool_name)
                    /\ x.contacts[k].name = x.tool_calls[j].tool_name
                    /\ x.contacts[k].arguments = x.tool_calls[j].arguments
              /\ Cardinality(ExecutesOf(x, j)) <= 1
              /\ Dispatched(x, j) => Cardinality(ExecutesOf(x, j)) = 1

\* ------------------------------------------------------------------------
\* C15.  No exception leaves the dispatcher: when list_tools or
\* execute_tool raises for a tool call, that call gets a result with
\* success = false that carries the text of the exception, and every later
\* tool call of the batch is dispatched all the same.
\* ------------------------------------------------------------------------
C15_EveryRaiseBecomesResult ==
    LET x == executor
    IN  /\ \A k \in 1..Len(x.raised) :
              (x.raised[k].op \in {"list", "execute"} /\ Dispatched(x, x.raised[k].call))
                 => /\ Len(x.tool_results) >= x.raised[k].call
                    /\ x.tool_results[x.raised[k].call].success = FALSE
                    /\ Contains(x.tool_results[x.raised[k].call].error, BOOM)
        /\ x.pc \in {"interpret", "done"}
              => /\ Len(x.tool_results) = Len(x.tool_calls)
                 /\ \A j \in 1..Len(x.tool_calls) : ListingsOf(x, j) # {}

\* ------------------------------------------------------------------------
\* C16.  Of the n tool calls parsed from a text, process_tool_calls
\* dispatches exactly the first min(n, MAX_TOOL_CALLS), in document order,
\* and collects one result for each of them, in the same order; a tool
\* call beyond the maximum is never listed for nor executed.
\* ------------------------------------------------------------------------
Min(a, b) == IF a <= b THEN a ELSE b

C16_FirstTenInOrder ==
    LET x == executor
        parsed == extract_tool_calls(x.response)
        m == Min(Len(parsed), 10)
    IN  /\ \A k \in 1..Len(x.contacts) :
              /\ x.contacts[k].call \in 1..m
              /\ k > 1 => x.contacts[k - 1].call <= x.contacts[k].call
              /\ x.contacts[k].op = "execute_tool"
                    => /\ x.contacts[k].name = parsed[x.contacts[k].call].tool_name
                       /\ x.contacts[k].arguments = parsed[x.contacts[k].call].arguments
        /\ Len(x.tool_results) <= m
        /\ \A j \in 1..Len(x.tool_results) : x.tool_results[j].tool = parsed[j].tool_name
        /\ x.pc \in {"interpret", "done"}
              => /\ Len(x.tool_results) = m
                 /\ \A j \in 1..m : ListingsOf(x, j) # {}

C16_Witness ==
    /\ executor.pc = "done"
    /\ Len(extract_tool_calls(executor.response)) = MAX_TOOL_CALLS + 1
    /\ Len(executor.tool_results) = MAX_TOOL_CALLS
    /\ executor.raised # << >>

\* ------------------------------------------------------------------------
\* C17.  get_messages(key, limit) returns at most limit messages, the most
\* recent ones of the history in chronological order, for every limit from
\* 0 up and every length of the history.
\* ------------------------------------------------------------------------
C17_AtMostLimitMostRecent ==
    manager_call.op = "get_messages" =>
        LET history == HistoryOf(manager_call.before, manager_call.key)
            n == Min(manager_call.limit, Len(history))
        IN  /\ Len(manager_call.result) <= manager_call.limit
            /\ manager_call.result = SubSeq(history, Len(history) - n + 1, Len(history))

\* ------------------------------------------------------------------------
\* C18.  get_messages on a key the store has never held returns the empty
\* sequence and leaves the set of keys of the store as it was.
\* ------------------------------------------------------------------------
C18_ReadCreatesNothing ==
    (manager_call.op = "get_messages" /\ manager_call.key \notin DOMAIN manager_call.before)
        => /\ manager_call.result = << >>
           /\ DOMAIN conversations = DOMAIN manager_call.before

\* ------------------------------------------------------------------------
\* Vocabulary of the properties of concurrent events
\* ------------------------------------------------------------------------
\* The coroutine of event e has stored its user message and has not ended.
InFlight(e) == task[e].pc \notin {"idle", "done"} /\ task[e].stored # << >>

SameKey(e1, e2) ==
    /\ Accepted(task[e1]) /\ Accepted(task[e2])
    /\ task[e1].conversation_id = task[e2].conversation_id

\* The places of the history at which event e stored a message.
PlacesOf(e) == {task[e].stored[k] : k \in 1..Len(task[e].stored)}

\* A message of event e2 lies between two messages of event e1.
Interleaved(e1, e2) ==
    \E a \in PlacesOf(e1), b \in PlacesOf(e2), c \in PlacesOf(e1) : a < b /\ b < c

\* ------------------------------------------------------------------------
\* C19.  At most one message-processing instance in flight appends to the
\* history of a conversation key, so that the messages stored for two
\* events of the same channel and thread are never interleaved.
\* ------------------------------------------------------------------------
C19_OneAppenderPerKey ==
    \A e1 \in Events, e2 \in Events :
        (e1 # e2 /\ SameKey(e1, e2))
           => /\ ~(InFlight(e1) /\ InFlight(e2))
              /\ ~Interleaved(e1, e2)

\* ------------------------------------------------------------------------
\* C20.  However two inbound events that first reference the same key
\* interleave, the store holds one conversation for the key with the
\* messages of both: every append is in the history at the place it went
\* to, none is overwritten or lost, and a further
\* get_or_create_conversation returns the conversation that is there.
\* ------------------------------------------------------------------------
RECURSIVE StoredBy(_)
\* How many messages the events of the set have stored.
StoredBy(set) ==
    IF set = {} THEN 0
    ELSE LET e == CHOOSE y \in set : TRUE
         IN  Len(task[e].stored) + StoredBy(set \ {e})

\* The events that have referenced conversation key k.
EventsOf(k) == {e \in Events : task[e].conversation_id = k}

C20_OneConversationNothingLost ==
    /\ \A e \in Events :
          Accepted(task[e]) =>
             LET t == task[e]
                 history == conversations[t.conversation_id]
             IN  /\ t.conversation_id \in DOMAIN conversations
                 /\ t.stored # << >>
                 /\ \A k \in 1..Len(t.stored) : t.stored[k] \in 1..Len(history)
                 /\ \A k \in 2..Len(t.stored) : t.stored[k - 1] < t.stored[k]
                 /\ history[t.stored[1]] = Message("user", t.text)
                 /\ \A k \in 2..Len(t.stored) : history[t.stored[k]].role = "assistant"
    /\ \A e1 \in Events, e2 \in Events :
          (e1 # e2 /\ SameKey(e1, e2)) => PlacesOf(e1) \cap PlacesOf(e2) = {}
    /\ \A k \in DOMAIN conversations :
          /\ Len(conversations[k]) = StoredBy(EventsOf(k))
          /\ get_or_create_conversation(conversations, k) = conversations

C20_Witness ==
    /\ task[1].pc = "done" /\ task[2].pc = "done"
    /\ SameKey(1, 2)
    /\ DOMAIN conversations = {task[1].conversation_id}
    /\ Interleaved(1, 2) /\ Interleaved(2, 1)
    /\ Len(conversations[task[1].conversation_id]) >= 5

\* ------------------------------------------------------------------------
\* C21.  An inbound event whose user is the bot's own user id leads to no
\* completion request, no call of a Tool Provider, no message to the chat
\* and no change of the conversation store.
\* ------------------------------------------------------------------------
C21_OwnEventsIgnored ==
    \A e \in SpecEvents :
        task[e].event.user = BOT
           => /\ task[e].pc = "done"
              /\ task[e].completions = 0
              /\ task[e].request = << >>
              /\ task[e].contacts = << >>
              /\ ChatOf(e) = << >>
              /\ task[e].stored = << >>
              /\ conversations = << >>

\* ------------------------------------------------------------------------
\* C27.  In every state after the handlers are constructed, also after
\* initialize_servers and initialize_bot_info have run, the tools of the
\* handlers contain the system tools handoff and end_response, marked
\* is_system, besides the tools of the providers.
\* ------------------------------------------------------------------------
HasSystemTool(tools, name) ==
    \E k \in 1..Len(tools) : tools[k].name = name /\ tools[k].is_system

C27_SystemToolsAlwaysListed ==
    /\ HasSystemTool(startup.handler_tools, "handoff")
    /\ HasSystemTool(startup.handler_tools, "end_response")
    /\ startup.pc \in {"auth", "started"}
          => \A k \in 1..Len(startup.tools) :
                \E j \in 1..Len(startup.handler_tools) :
                   startup.handler_tools[j] = startup.tools[k]

\* ------------------------------------------------------------------------
\* C28.  The tools collected at startup never hold two descriptors of one
\* name: of several registrants of a name (providers, or a provider and a
\* system tool) only the first one's descriptor is kept.
\* ------------------------------------------------------------------------
UniqueNames(tools) ==
    \A j \in 1..Len(tools), k \in 1..Len(tools) :
        tools[j].name = tools[k].name => j = k

C28_ToolNamesUnique ==
    /\ UniqueNames(startup.tools)
    /\ UniqueNames(startup.handler_tools)

\* ------------------------------------------------------------------------
\* C22.  get_response never raises to its caller: it makes at most
\* max_retries + 1 request attempts, with waits that grow exponentially
\* between them, returns the text of the first attempt that succeeds, and
\* after the last failed attempt returns a text describing the error.
\* ------------------------------------------------------------------------
\* The attempts, the waits and what is returned, for a call that got as far
\* as its requests.
RetriesAsDescribed ==
    /\ Len(llm.attempts) <= DEFAULT_MAX_RETRIES + 1
    /\ \A k \in 1..Len(llm.sleeps) : llm.sleeps[k] = 2 ^ (k - 1)
    /\ \A k \in 1..(Len(llm.attempts) - 1) : ~llm.attempts[k].ok
    /\ llm.pc = "request" => Len(llm.sleeps) = Len(llm.attempts)
    /\ (llm.pc = "done" /\ llm.attempts # << >>)
          => /\ Len(llm.sleeps) = Len(llm.attempts) - 1
             /\ llm.outcome = "returned"
             /\ IF Last(llm.attempts).ok
                THEN llm.value = Last(llm.attempts).text
                ELSE /\ Len(llm.attempts) = DEFAULT_MAX_RETRIES + 1
                     /\ llm.value = <<llm.error_message, ":", Last(llm.attempts).text>>

\* As claimed: whatever the model.
C22_NeverRaises ==
    /\ RetriesAsDescribed
    /\ llm.pc = "done" => llm.outcome = "returned"

\* Amended: a model that is not supported makes get_response raise at
\* once, without a request.
C22_NeverRaisesWhenSupported ==
    /\ RetriesAsDescribed
    /\ llm.pc = "done"
          => IF ErrorMessageOf(llm.model) = None
             THEN llm.outcome = "raised" /\ llm.attempts = << >>
             ELSE llm.outcome = "returned" /\ llm.attempts # << >>

C22_Witness ==
    /\ llm.pc = "done"
    /\ llm.outcome = "returned"
    /\ Len(llm.attempts) = DEFAULT_MAX_RETRIES + 1
    /\ ~Last(llm.attempts).ok
    /\ llm.sleeps = <<1, 2>>


\* ------------------------------------------------------------------------
\* C23.  execute_tool(name, args, retries, delay) returns only a value of
\* a successful call_tool attempt and otherwise raises: for every retries
\* >= 0 it makes at most that many attempts, waits delay only between
\* consecutive attempts, returns at the first success, and raises the
\* failure once the attempts are exhausted.
\* ------------------------------------------------------------------------
C23_ReturnsResultOrRaises ==
    LET x == server_call
    IN  /\ Len(x.attempts) <= x.retries
        /\ \A k \in 1..Len(x.sleeps) : x.sleeps[k] = x.delay
        /\ \A k \in 1..(Len(x.attempts) - 1) : ~x.attempts[k].ok
        /\ x.pc = "call_tool" => Len(x.sleeps) = Len(x.attempts)
        /\ x.pc = "sleep" => Len(x.sleeps) = Len(x.attempts)
        /\ x.pc = "done" =>
              \/ /\ x.outcome = "returned"
                 /\ x.attempts # << >>
                 /\ Last(x.attempts).ok
                 /\ x.value = Last(x.attempts).value
                 /\ Len(x.sleeps) = Len(x.attempts) - 1
              \/ /\ x.outcome = "raised"
                 /\ ~x.session
                 /\ x.attempts = << >>
              \/ /\ x.outcome = "raised"
                 /\ x.session
                 /\ Len(x.attempts) = x.retries
                 /\ x.attempts # << >>
                 /\ ~Last(x.attempts).ok
                 /\ x.value = Last(x.attempts).value
                 /\ Len(x.sleeps) = Len(x.attempts) - 1

\* ------------------------------------------------------------------------
\* C24.  For every text made of N well-formed marker + JSON-object pairs,
\* also with objects that span several lines, nested objects and string
\* values that hold braces, the parser returns exactly the N invocations,
\* in document order, each with the name and the object that was written.
\* ------------------------------------------------------------------------
\* What the well-formed segments of the text ask for, in document order.
Asked(written) ==
    LET pairs == SelectSeq(written, LAMBDA w : w.kind \in ObjectKinds)
    IN  [k \in 1..Len(pairs) |-> pairs[k].call]

C24_WellFormedPairsAllReturned ==
    (/\ parser.pc \in {"extracted", "split"}
     /\ \A k \in 1..Len(parser.written) : parser.written[k].kind \in ObjectKinds)
        => parser.tool_calls = Asked(parser.written)

\* ------------------------------------------------------------------------
\* C25.  A marker whose JSON is missing or invalid yields no invocation
\* and raises nothing, and it never keeps a well-formed invocation later in
\* the same text from being returned.  Checked on texts whose well-formed
\* objects hold no brace inside.
\* ------------------------------------------------------------------------
PlainKinds == {"empty", "flat", "multiline"}

C25_BrokenMarkerCostsNothing ==
    (/\ parser.pc \in {"extracted", "split"}
     /\ \A k \in 1..Len(parser.written) :
           parser.written[k].kind \in PlainKinds \cup BrokenKinds \cup {"prose"})
        => parser.tool_calls = Asked(parser.written)

\* ------------------------------------------------------------------------
\* C26.  For every text without a marker, split_response returns the text
\* itself as the non-tool content with an empty list of invocations, and
\* extract_tool_calls returns an empty list.
\* ------------------------------------------------------------------------
C26_NoMarkerNoInvocation ==
    ~Contains(parser.response, MARKER)
        => /\ parser.pc = "split"
              => /\ parser.non_tool_content = parser.response
                 /\ parser.tool_calls = << >>
           /\ parser.pc = "extracted" => parser.tool_calls = << >>

C26_Witness ==
    /\ parser.pc = "split"
    /\ ~Contains(parser.response, MARKER)
    /\ Len(parser.written) = 2
    /\ parser.response # strip(parser.response)
    /\ Contains(parser.response, LBRACE)

\* ------------------------------------------------------------------------
\* C29.  clear_conversation(key) on a key that is present leaves the key
\* present with an empty history; on an absent key it changes nothing and
\* creates no entry; either way every other conversation is as it was.
\* ------------------------------------------------------------------------
C29_ClearResetsOnlyItsKey ==
    manager_call.op = "clear_conversation" =>
        LET before == manager_call.before
            key == manager_call.key
        IN  /\ DOMAIN conversations = DOMAIN before
            /\ key \in DOMAIN before => conversations[key] = << >>
            /\ key \notin DOMAIN before => conversations = before
            /\ \A k \in DOMAIN before \ {key} : conversations[k] = before[k]

C29_Witness ==
    /\ manager_call.op = "clear_conversation"
    /\ manager_call.key \in DOMAIN manager_call.before
    /\ manager_call.before[manager_call.key] # << >>
    /\ conversations[manager_call.key] = << >>
    /\ \E k \in DOMAIN conversations \ {manager_call.key} : conversations[k] # << >>

\* ------------------------------------------------------------------------
\* C30.  Between two clears of a key its history only grows at its end:
\* every add_message appends exactly one message behind all those present,
\* and no operation of the store reorders, alters or removes an earlier
\* message of that or of any other conversation.
\* ------------------------------------------------------------------------
C30_HistoryGrowsAtItsEnd ==
    LET before == manager_call.before
        key == manager_call.key
    IN  /\ manager_call.op # "none" =>
              \A k \in DOMAIN before :
                 /\ k \in DOMAIN conversations
                 /\ (manager_call.op = "clear_conversation" /\ k = key)
                       \/ IsPrefix(before[k], conversations[k])
        /\ manager_call.op = "add_message" =>
              /\ Len(conversations[key]) = Len(HistoryOf(before, key)) + 1
              /\ SubSeq(conversations[key], 1, Len(conversations[key]) - 1)
                    = HistoryOf(before, key)
              /\ \A k \in DOMAIN conversations \ {key} :
                    k \in DOMAIN before /\ conversations[k] = before[k]
        /\ manager_call.op \in {"get_messages", "get_or_create_conversation"} =>
              \A k \in DOMAIN conversations : conversations[k] = HistoryOf(before, k)

C30_Witness ==
    /\ manager_call.op = "add_message"
    /\ Len(HistoryOf(manager_call.before, manager_call.key)) = 2
    /\ conversations[manager_call.key][1] # conversations[manager_call.key][3]
    /\ \E k \in DOMAIN conversations \ {manager_call.key} : conversations[k] # << >>

\* ------------------------------------------------------------------------
\* C31.  Every text relayed to the chat while an inbound event is processed
\* carries the channel and the thread identifier of that event, however
\* the events processed concurrently interleave.
\* ------------------------------------------------------------------------
C31_RelaysCarryTheirEvent ==
    \A k \in 1..Len(chat) :
        LET ev == task[chat[k].event].event
        IN  /\ chat[k].channel = ev.channel
            /\ chat[k].thread_ts = ThreadOf(ev)

\* Relays of the two events alternate, and the events differ in channel
\* and thread.
C31_Witness ==
    /\ \E a \in 1..Len(chat), b \in 1..Len(chat), c \in 1..Len(chat) :
          /\ a < b /\ b < c
          /\ chat[a].event = 1 /\ chat[b].event = 2 /\ chat[c].event = 1
          /\ chat[b].channel # chat[a].channel
          /\ chat[b].thread_ts # chat[a].thread_ts
    /\ \E k \in 1..Len(chat) : chat[k].text # <<"greeting">>

\* ------------------------------------------------------------------------
\* C32.  Events with the same channel and the same thread identifier
\* (thread_ts, or ts when the event carries no thread_ts) always map to
\* the same conversation key, so that a root message and the replies in
\* its thread share one history.
\* ------------------------------------------------------------------------
\* The thread identifier of an event, as the claim words it.
ThreadIdentifier(ev) == IF ev.thread_ts = None THEN ev.ts ELSE ev.thread_ts

C32_SameThreadSameKey ==
    \A e1 \in Events, e2 \in Events :
        (/\ Accepted(task[e1]) /\ Accepted(task[e2])
         /\ task[e1].event.channel = task[e2].event.channel
         /\ ThreadIdentifier(task[e1].event) = ThreadIdentifier(task[e2].event))
           => /\ task[e1].conversation_id = task[e2].conversation_id
              /\ \E k \in 1..Len(conversations[task[e1].conversation_id]) :
                    conversations[task[e1].conversation_id][k]
                        = Message("user", task[e2].text)

\* Event 1 is a root message, event 2 a reply in its thread.
C32_Witness ==
    /\ Accepted(task[1]) /\ Accepted(task[2])
    /\ task[1].event.thread_ts = None
    /\ task[2].event.thread_ts = task[1].event.ts
    /\ task[2].event.ts # task[1].event.ts
    /\ task[1].conversation_id = task[2].conversation_id
    /\ Len(conversations[task[1].conversation_id]) >= 3

\* ------------------------------------------------------------------------
\* C33.  process_tool_calls on a response without the marker returns the
\* response unchanged and contacts neither a Tool Provider nor the
\* Completion Provider.
\* ------------------------------------------------------------------------
C33_NoMarkerReturnedAsIs ==
    (executor.pc # "idle" /\ ~Contains(executor.response, MARKER))
        => /\ executor.pc = "done"
           /\ executor.returned = executor.response
           /\ executor.contacts = << >>
           /\ executor.request = << >>
           /\ executor.raised = << >>

C33_Witness ==
    /\ executor.pc = "done"
    /\ executor.response = R_answer
    /\ executor.returned = R_answer
    /\ executor.contacts = << >>

\* ------------------------------------------------------------------------
\* C34.  Processing an event of one conversation key never reads or
\* modifies the history of a different key, however the events processed
\* concurrently interleave.
\* ------------------------------------------------------------------------
\* The context and the pending request of event e hold no user message of
\* an event with another key.
ReadsOwnKeyOnly(e) ==
    \A e2 \in Events :
        (Accepted(task[e]) /\ Accepted(task[e2])
            /\ task[e].conversation_id # task[e2].conversation_id)
           => /\ \A k \in 1..Len(task[e].messages) :
                    task[e].messages[k] # Message("user", task[e2].text)
              /\ \A k \in 1..Len(task[e].request) :
                    task[e].request[k] # Message("user", task[e2].text)

\* A step changes the history of a key only when it is a step of an event
\* with that key.
WritesOwnKeyOnly ==
    \A k \in DOMAIN conversations' :
        (k \notin DOMAIN conversations \/ conversations'[k] # conversations[k])
           => \E e \in Events : task'[e] # task[e] /\ task'[e].conversation_id = k

C34_OtherKeysUntouched ==
    /\ [](\A e \in Events : ReadsOwnKeyOnly(e))
    /\ [][WritesOwnKeyOnly]_vars

\* Both events are in flight under different keys, each with a history.
C34_Witness ==
    /\ InFlight(1) /\ InFlight(2)
    /\ task[1].conversation_id # task[2].conversation_id
    /\ Len(conversations[task[1].conversation_id]) >= 2
    /\ Len(conversations[task[2].conversation_id]) >= 2
    /\ task[2].event.channel = task[1].event.channel

\* ------------------------------------------------------------------------
\* C35.  In process_tool_calls, if no tool call of the response was
\* executed successfully, the original non-tool content (or, when that is
\* empty, the original response) is returned and no interpretation is
\* requested from the Completion Provider.
\* ------------------------------------------------------------------------
NoneSucceeded(x) == \A k \in 1..Len(x.tool_results) : ~x.tool_results[k].success

SelectsRegular(response) ==
    /\ CallsOf(response) # << >>
    /\ CallsOf(response)[1].tool_name \notin {"handoff", "end_response"}

OutcomeKinds ==
    {"executed successfully. Result:", "failed with error:", "not found. Available tools:"}

IsOutcome(m) ==
    /\ m.role = "system"
    /\ Len(m.content) >= 3
    /\ m.content[1] = "Tool"
    /\ m.content[3] \in OutcomeKinds

\* The tools the outcome messages of a context speak of, in order.
OutcomeNames(messages) ==
    LET outcomes == SelectSeq(messages, IsOutcome)
    IN  [k \in 1..Len(outcomes) |-> outcomes[k].content[2]]

\* The regular tools selected from the completions, in order.
RegularNames(responses) ==
    LET regular == SelectSeq(responses, SelectsRegular)
    IN  [k \in 1..Len(regular) |-> CallsOf(regular[k])[1].tool_name]

C36_OneOutcomePerInvocation ==
    \A e \in Events :
        LET t == task[e]
        IN  /\ Len(OutcomeNames(t.messages)) <= Len(RegularNames(t.responses))
            /\ IsPrefix(OutcomeNames(t.messages), RegularNames(t.responses))
            /\ t.pc = "loop_llm"
                  => OutcomeNames(t.request) = RegularNames(t.responses)

C36_Witness ==
    \E e \in Events :
        LET t == task[e]
        IN  /\ t.pc = "loop_llm"
            /\ Len(OutcomeNames(t.request)) >= 2
            /\ \E k \in 1..Len(t.request) :
                  IsOutcome(t.request[k]) /\ t.request[k].content[3] = "failed with error:"
            /\ \E k \in 1..Len(t.request) :
                  IsOutcome(t.request[k])
                     /\ t.request[k].content[3] = "executed successfully. Result:"

\* ------------------------------------------------------------------------
\* C37.  Self-message suppression holds in every state the bot can be in
\* after start(), also when the bot's user id could not be obtained
\* (initialize_bot_info failed, bot_id stays None): an event authored by
\* the bot itself never starts a greeting or a loop.
\* ------------------------------------------------------------------------
C37_SuppressionSurvivesFailedAuth ==
    \A e \in SpecEvents :
        (startup.pc = "started" /\ task[e].event.user = BOT)
           => /\ ~Accepted(task[e])
              /\ task[e].pc \notin {"greeting_llm", "greeting_say", "loop_llm"}
              /\ task[e].completions = 0

\* ------------------------------------------------------------------------
\* C38.  A provider whose initialization failed at startup stays in the
\* registry but never blocks work: startup goes on with the remaining
\* providers, and in every later dispatch its catalog listing raises, the
\* error is caught and resolution proceeds to the next provider, so that a
\* tool owned by a later healthy provider is still executed.
\* ------------------------------------------------------------------------
\* Tool call i of the text has been dispatched, and no provider with a
\* session raised while it was.
Dispatched_Cleanly(i) ==
    /\ executor.pc \in {"interpret", "done"} \/ i < executor.i
    /\ \A k \in 1..Len(executor.raised) :
          executor.raised[k].call = i => executor.raised[k].op = "interpret"

\* The healthy providers that list the tool.
HealthyListers(name) == {s \in Servers : HasSession(s) /\ Contains(Catalog[s], name)}

\* The providers whose initialization failed.
FailedProviders == {s \in Servers : ~HasSession(s)}

C38_FailedProviderBlocksNothing ==
    /\ startup.pc \in {"auth", "started"}
          => \* the loop over the servers went through all of them
             /\ startup.srv = Len(Catalog)
             /\ startup.surprises = Cardinality(FailedProviders)
                   => \A s \in Servers \ FailedProviders :
                         \A k \in 1..Len(Catalog[s]) :
                            \E j \in 1..Len(startup.tools) :
                               startup.tools[j] = Tool(Catalog[s][k], FALSE, s)
    /\ \A i \in 1..Len(executor.tool_calls) :
          LET name == executor.tool_calls[i].tool_name
          IN  (Dispatched_Cleanly(i) /\ HealthyListers(name) # {})
                 => LET owner == CHOOSE s \in HealthyListers(name) :
                                    \A s2 \in HealthyListers(name) : s <= s2
                    IN  /\ \E k \in 1..Len(executor.contacts) :
                              /\ executor.contacts[k].op = "execute_tool"
                              /\ executor.contacts[k].call = i
                              /\ executor.contacts[k].server = owner
                              /\ executor.contacts[k].name = name
                        /\ \A f \in 1..(owner - 1) :
                              \E k \in 1..Len(executor.contacts) :
                                 /\ executor.contacts[k].op = "list_tools"
                                 /\ executor.contacts[k].call = i
                                 /\ executor.contacts[k].server = f
                        /\ executor.tool_results[i].tool = name
                        /\ executor.tool_results[i].success

\* The first provider failed to initialize; a tool it would have listed and
\* a tool of the second provider alone were both executed by the second.
C38_Witness ==
    /\ FailedProviders = {1}
    /\ executor.pc = "done"
    /\ executor.raised = << >>
    /\ \E k \in 1..Len(executor.contacts) :
          /\ executor.contacts[k].op = "execute_tool"
          /\ executor.contacts[k].server = 2
          /\ executor.contacts[k].name = "lookup"
    /\ \E k \in 1..Len(executor.contacts) :
          /\ executor.contacts[k].op = "execute_tool"
          /\ executor.contacts[k].server = 2
          /\ executor.contacts[k].name = "search"

\* ------------------------------------------------------------------------
\* C39.  The first completion request made for an inbound event always has
\* that event's own user text as the last message of its history part,
\* however it interleaves with other events of the same conversation: the
\* append of the user message and the bounded read of the history happen
\* with no suspension point in between.
\* ------------------------------------------------------------------------
C39_OwnTextEndsFirstRequest ==
    \A e \in Events :
        task[e].pc = "greeting_llm"
           => LET r == task[e].request
              IN  /\ Len(r) >= 3
                  /\ Len(r) <= DEFAULT_CONVERSATION_HISTORY_LIMIT + 2
                  /\ r[1] = Message("system", SYSTEM_PROMPT)
                  /\ r[Len(r)] = Message("system", GREETING_PROMPT)
                  /\ r[Len(r) - 1] = Message("user", task[e].text)

\* The second event is received while the first one, of the same
\* conversation, is suspended with messages already stored.
C39_Witness ==
    /\ task[2].pc = "greeting_llm"
    /\ task[1].pc \notin {"idle", "done"}
    /\ SameKey(1, 2)
    /\ Len(task[2].request) >= 5
    /\ task[2].request[2] = Message("user", task[1].text)

\* ------------------------------------------------------------------------
\* C40.  Every message the handler stores in the conversation store has
\* role user or assistant: tool results, corrective instructions and the
\* system prompt live in the context of the message being processed only
\* and are never persisted, so they are absent from the history given to
\* later events of the same conversation.
\* ------------------------------------------------------------------------
\* What the context holds besides the conversation.
ContextOnly ==
    {SYSTEM_PROMPT, GREETING_PROMPT, STEP5_PROMPT, REMINDER, PARSE_ERROR,
     STEP2_PROMPT, STEP3_PROMPT}

Persistable(m) ==
    /\ m.role \in {"user", "assistant"}
    /\ m.content \notin ContextOnly
    /\ ~IsOutcome([role |-> "system", content |-> m.content])

C40_OnlyConversationPersisted ==
    /\ \A key \in DOMAIN conversations :
          \A k \in 1..Len(conversations[key]) : Persistable(conversations[key][k])
    /\ \A e \in Events :
          task[e].pc = "greeting_llm"
             => \A k \in 2..(Len(task[e].request) - 1) : Persistable(task[e].request[k])

\* The first event has had a tool result and a corrective or step
\* instruction in its context; the second, of the same conversation, is
\* received behind the messages the first has stored.
C40_Witness ==
    /\ SameKey(1, 2)
    /\ \E k \in 1..Len(task[1].messages) : IsOutcome(task[1].messages[k])
    /\ \E k \in 1..Len(task[1].messages) :
          task[1].messages[k] = Message("system", STEP3_PROMPT)
    /\ task[2].pc = "greeting_llm"
    /\ task[2].stored[1] >= 3
    /\ Len(task[2].request) >= 5
====
